---------------------------- MODULE Spec2Model ----------------------------
(***************************************************************************)
(* A model of the mirror pipeline of mc:                                   *)
(*   - ParallelManager (parallel task executor with a barrier gate, a      *)
(*     memory check and a throughput monitor),                             *)
(*   - deltaSourceTarget (turns difference messages into copy / remove     *)
(*     URLs or error results under the mirror options).                    *)
(***************************************************************************)
EXTENDS Integers, Sequences, FiniteSets, TLC

(***************************************************************************)
(* Bounds of the model.                                                    *)
(***************************************************************************)
\* number of tasks submitted to the ParallelManager in one run
MaxTasks == 2
\* the byte counter is followed up to this value
MaxSentBytes == 1
\* number of difference messages of one run with open input
MaxEvents == 2
\* number of distinct object keys
MaxKeys == 2
\* difference messages sent and not yet received
DiffChCap == 1
\* number of calls of a pure function looked at alone
MaxCalls == 2

(***************************************************************************)
(* Program constants.                                                      *)
(***************************************************************************)
maxParallelWorkers == 128
\* const partSize = 128 * 1024 * 1024
partSize == 134217728

(***************************************************************************)
(* Inputs.                                                                 *)
(***************************************************************************)
\* <<runtime.NumCPU(), runtime.GOMAXPROCS(0)>> of the machine
Machines == {<<1, 1>>, <<127, 2>>, <<130, 2>>}
\* memStats.Available as returned by mem.VirtualMemory()
Availables == {500000000}
\* smem.Alloc as read by runtime.ReadMemStats at a submission
Allocs == {0, 100000000}
\* uploadSize of a submitted task
UploadSizes == {0, 4 * partSize}
\* the calls made: <<FALSE, uploadSize>> is queueTask(fn, uploadSize),
\* <<TRUE, uploadSize>> is queueTaskWithBarrier(fn, uploadSize), the latter
\* for the objects with content
Calls == {c \in BOOLEAN \X UploadSizes : ~(c[1] /\ c[2] = 0)}
\* len(b) of one Read call
ReadLens == {1}
\* upload sizes given to the memory estimate when it is looked at alone
EstimateSizes == {0, 1, partSize - 1, partSize, 2 * partSize, 3 * partSize - 1,
                  3 * partSize, 3 * partSize + 1, 4 * partSize - 1, 4 * partSize,
                  15 * partSize}

Tasks == 1..MaxTasks

VARIABLES
    \* ---- ParallelManager ----
    numCPU,            \* runtime.NumCPU()
    defaultWorkerFactor,
    maxMem,            \* p.maxMem
    workersNum,        \* p.workersNum
    liveWorkers,       \* worker goroutines started and not returned (p.wg counter)
    sentBytes,         \* p.sentBytes
    readReturned,      \* the sum of the lengths returned by the Read calls so far
    queueClosed,       \* close(p.queueCh) done
    stopMonitorClosed, \* close(p.stopMonitorCh) done
    readerCount,       \* p.barrierSync: shared holds outstanding
    writer,            \* p.barrierSync: task whose Lock() call owns the writer slot, 0 if none
    writerHolds,       \* p.barrierSync: the writer's Lock() call has returned
    mainPc,            \* newParallelManager / stopAndWait position
    newI,              \* loop index of newParallelManager's addWorker loop
    monPc,             \* monitor goroutine position
    monI,              \* loop index of the monitor's addWorker loop
    prevSentBytes, maxBandwidth, retry,   \* monitor locals
    tpc,               \* per task: position of its submission / execution
    tdeclared,         \* per task: barrier flag given by the caller
    tbarrier,          \* per task: t.barrier after the memory check
    tsize,             \* per task: t.uploadSize
    \* ---- mirror: difference -> deltaSourceTarget -> URLsCh ----
    impl,              \* which deltaSourceTarget of the sources runs
    opts,              \* mirrorOptions: isFake, isOverwrite, activeActive, isRemove, excludeOptions
    srcList, tgtList,  \* the two listings read by the difference engine
    srcIdx, tgtIdx,    \* its two cursors
    diffCh,            \* difference messages sent and not yet received
    diffClosed,        \* close(diffCh) done
    diffSent,          \* every difference message sent so far, in order
    dPc,               \* position of deltaSourceTarget
    pending,           \* the URLs deltaSourceTarget is blocked sending on URLsCh
    stopAfter,         \* deltaSourceTarget returns after the pending send
    events,            \* the difference messages deltaSourceTarget has received, in order
    emitted,           \* what the consumer of URLsCh has received: [idx, urls], idx the
                       \* position in events of the message that caused it (0: none)
    URLsChClosed,      \* close(URLsCh) done
    ctxDone,           \* the context given to deltaSourceTarget has been cancelled
    receiving,         \* the consumer of URLsCh still receives
    \* ---- a pure function looked at alone ----
    callArgs,          \* the arguments of its calls so far, in order
    callResults        \* what the calls returned, in order

pmVars == <<numCPU, defaultWorkerFactor, maxMem, workersNum, liveWorkers, sentBytes,
            readReturned,
            queueClosed, stopMonitorClosed, readerCount, writer, writerHolds,
            mainPc, newI, monPc, monI, prevSentBytes, maxBandwidth, retry,
            tpc, tdeclared, tbarrier, tsize>>

mirrorVars == <<impl, opts, srcList, tgtList, srcIdx, tgtIdx, diffCh, diffClosed,
                diffSent, dPc, pending, stopAfter, events, emitted, URLsChClosed,
                ctxDone, receiving>>

callVars == <<callArgs, callResults>>

vars == <<pmVars, mirrorVars, callVars>>

(***************************************************************************)
(* ParallelManager: pure parts.                                            *)
(***************************************************************************)

\* maxMem = float64(memStats.Available) * 0.8, truncated by uint64(); 0 on error
computeMaxMem(available, err) ==
    IF err THEN 0
    ELSE (available \div 10) * 8 + ((available % 10) * 8) \div 10

(***************************************************************************)
(* uint64 values.  A value is held as its four 16-bit digits, the least    *)
(* significant first, so that the sizes above 2^31 that the conversion of  *)
(* a negative int64 gives can be told apart.                               *)
(***************************************************************************)
U64Base == 65536

\* a conversion that keeps the magnitude and drops the sign
uint64OfMagnitude(v) ==
    LET a == IF v >= 0 THEN v ELSE -v
    IN  <<a % U64Base, a \div U64Base, 0, 0>>

\* uint64(v) of an int64 v: v itself from 0 on, 2^64 + v below 0 (the digits of
\* -v - 1 complemented)
uint64(v) ==
    IF v >= 0 THEN <<v % U64Base, v \div U64Base, 0, 0>>
    ELSE LET c == -v - 1
         IN  <<U64Base - 1 - (c % U64Base), U64Base - 1 - (c \div U64Base),
               U64Base - 1, U64Base - 1>>

\* a uint64 below 2^31 as a number
U64Value(d) == d[1] + U64Base * d[2]

\* x < y on uint64
U64Less(x, y) ==
    \/ x[4] < y[4]
    \/ x[4] = y[4] /\ x[3] < y[3]
    \/ x[4] = y[4] /\ x[3] = y[3] /\ x[2] < y[2]
    \/ x[4] = y[4] /\ x[3] = y[3] /\ x[2] = y[2] /\ x[1] < y[1]

\* size / partSize on uint64: partSize is U64Base * k, so the lowest digit is
\* dropped and the other three are divided by k, most significant first
U64DivPartSize(size) ==
    LET k == partSize \div U64Base
        q3 == size[4] \div k
        r3 == size[4] % k
        q2 == (r3 * U64Base + size[3]) \div k
        r2 == (r3 * U64Base + size[3]) % k
        q1 == (r2 * U64Base + size[2]) \div k
    IN  <<q1, q2, q3, 0>>

\* if uploadSize < 0 { panic("unexpected size") }, uploadSize being a uint64
unexpectedSize(uploadSize) == U64Less(uploadSize, uint64(0))

\* an estimate capped only above three parts
estimateNeededMemoryForUploadAboveThreeParts(size) ==
    LET parallel == U64DivPartSize(size)
    IN  IF U64Less(uint64(3), parallel) THEN uint64(3 * partSize) ELSE size

estimateNeededMemoryForUpload(size) ==
    LET parallel == U64DivPartSize(size)
    IN  IF ~U64Less(parallel, uint64(3)) THEN uint64(3 * partSize) ELSE size

\* a memory check that forgets the estimate of the upload
enoughMemForUploadIgnoringEstimate(uploadSize, alloc) ==
    IF uploadSize = uint64(0) \/ maxMem = 0 THEN TRUE
    ELSE alloc < maxMem

\* a memory check that admits a task that fills the budget exactly
enoughMemForUploadUpToBudget(uploadSize, alloc) ==
    IF uploadSize = uint64(0) \/ maxMem = 0 THEN TRUE
    ELSE U64Value(estimateNeededMemoryForUpload(uploadSize)) + alloc <= maxMem

\* enoughMemForUpload(uploadSize uint64), alloc being smem.Alloc as read by the call
enoughMemForUpload(uploadSize, alloc) ==
    IF uploadSize = uint64(0) \/ maxMem = 0 THEN TRUE
    ELSE U64Value(estimateNeededMemoryForUpload(uploadSize)) + alloc < maxMem

\* an addWorker without the ceiling check
addWorkerAllowedNoCeiling(n) == TRUE

\* the guard of addWorker: no worker is created at the ceiling
addWorkerAllowed(n) == ~(n >= maxParallelWorkers)

\* addWorker: the worker count and the goroutine count after one call
addWorker ==
    IF addWorkerAllowed(workersNum)
    THEN /\ workersNum' = workersNum + 1
         /\ liveWorkers' = liveWorkers + 1
    ELSE UNCHANGED <<workersNum, liveWorkers>>

\* tasks a worker has received and not yet released
Executing(t) == tpc[t] \in {"running", "result", "release"}

\* workers blocked in <-p.queueCh
idleWorkers == liveWorkers - Cardinality({t \in Tasks : Executing(t)})

(***************************************************************************)
(* newParallelManager                                                      *)
(***************************************************************************)
PMInitWith(availables) ==
    /\ \E m \in Machines : numCPU = m[1] /\ defaultWorkerFactor = m[2]
    /\ \E available \in availables, err \in BOOLEAN :
           maxMem = computeMaxMem(available, err)
    /\ workersNum = 0
    /\ liveWorkers = 0
    /\ sentBytes = 0
    /\ readReturned = 0
    /\ queueClosed = FALSE
    /\ stopMonitorClosed = FALSE
    /\ readerCount = 0
    /\ writer = 0
    /\ writerHolds = FALSE
    /\ mainPc = "new"
    /\ newI = 0
    /\ monPc = "off"
    /\ monI = 0
    /\ prevSentBytes = 0
    /\ maxBandwidth = 0
    /\ retry = 0
    /\ tpc = [t \in Tasks |-> "idle"]
    /\ tdeclared = [t \in Tasks |-> FALSE]
    /\ tbarrier = [t \in Tasks |-> FALSE]
    /\ tsize = [t \in Tasks |-> 0]
    /\ callArgs = <<>>
    /\ callResults = <<>>

PMInit == PMInitWith(Availables)

\* for i := 0; i < runtime.NumCPU(); i++ { p.addWorker() }
NewAddWorker ==
    /\ mainPc = "new"
    /\ newI < numCPU
    /\ addWorker
    /\ newI' = newI + 1
    /\ UNCHANGED mirrorVars
    /\ UNCHANGED callVars
    /\ UNCHANGED <<numCPU, defaultWorkerFactor, maxMem, sentBytes, readReturned, queueClosed,
                   stopMonitorClosed, readerCount, writer, writerHolds, mainPc,
                   monPc, monI, prevSentBytes, maxBandwidth, retry,
                   tpc, tdeclared, tbarrier, tsize>>

\* p.monitorProgress(); return p
NewReturn ==
    /\ mainPc = "new"
    /\ newI >= numCPU
    /\ mainPc' = "run"
    /\ monPc' = "select"
    /\ UNCHANGED mirrorVars
    /\ UNCHANGED callVars
    /\ UNCHANGED <<numCPU, defaultWorkerFactor, maxMem, workersNum, liveWorkers,
                   sentBytes, readReturned, queueClosed, stopMonitorClosed, readerCount, writer,
                   writerHolds, newI, monI, prevSentBytes, maxBandwidth, retry,
                   tpc, tdeclared, tbarrier, tsize>>

(***************************************************************************)
(* monitorProgress                                                         *)
(***************************************************************************)
\* a monitor for which a tick that equals the best bandwidth is an improvement
MonitorTickResetsOnEqual ==
    /\ monPc = "select"
    /\ LET bandwidth == sentBytes - prevSentBytes
       IN  /\ prevSentBytes' = sentBytes
           /\ IF bandwidth < maxBandwidth
              THEN /\ retry' = retry + 1
                   /\ maxBandwidth' = maxBandwidth
                   /\ monPc' = IF retry + 1 > 2 THEN "exited" ELSE "add"
              ELSE /\ retry' = 0
                   /\ maxBandwidth' = bandwidth
                   /\ monPc' = "add"
    /\ monI' = 0
    /\ UNCHANGED mirrorVars
    /\ UNCHANGED callVars
    /\ UNCHANGED <<numCPU, defaultWorkerFactor, maxMem, workersNum, liveWorkers,
                   sentBytes, readReturned, queueClosed, stopMonitorClosed, readerCount, writer,
                   writerHolds, mainPc, newI, tpc, tdeclared, tbarrier, tsize>>

\* a monitor that gives up one stalled tick later
MonitorTickAllowsThreeStalls ==
    /\ monPc = "select"
    /\ LET bandwidth == sentBytes - prevSentBytes
       IN  /\ prevSentBytes' = sentBytes
           /\ IF bandwidth <= maxBandwidth
              THEN /\ retry' = retry + 1
                   /\ maxBandwidth' = maxBandwidth
                   /\ monPc' = IF retry + 1 > 3 THEN "exited" ELSE "add"
              ELSE /\ retry' = 0
                   /\ maxBandwidth' = bandwidth
                   /\ monPc' = "add"
    /\ monI' = 0
    /\ UNCHANGED mirrorVars
    /\ UNCHANGED callVars
    /\ UNCHANGED <<numCPU, defaultWorkerFactor, maxMem, workersNum, liveWorkers,
                   sentBytes, readReturned, queueClosed, stopMonitorClosed, readerCount, writer,
                   writerHolds, mainPc, newI, tpc, tdeclared, tbarrier, tsize>>

\* a monitor that adds workers only on a tick that improved the bandwidth
MonitorTickSkipsStalledBatch ==
    /\ monPc = "select"
    /\ LET bandwidth == sentBytes - prevSentBytes
       IN  /\ prevSentBytes' = sentBytes
           /\ IF bandwidth <= maxBandwidth
              THEN /\ retry' = retry + 1
                   /\ maxBandwidth' = maxBandwidth
                   /\ monPc' = IF retry + 1 > 2 THEN "exited" ELSE "select"
              ELSE /\ retry' = 0
                   /\ maxBandwidth' = bandwidth
                   /\ monPc' = "add"
    /\ monI' = 0
    /\ UNCHANGED mirrorVars
    /\ UNCHANGED callVars
    /\ UNCHANGED <<numCPU, defaultWorkerFactor, maxMem, workersNum, liveWorkers,
                   sentBytes, readReturned, queueClosed, stopMonitorClosed, readerCount, writer,
                   writerHolds, mainPc, newI, tpc, tdeclared, tbarrier, tsize>>

\* case <-ticker.C, up to the addWorker loop
MonitorTick ==
    /\ monPc = "select"
    /\ LET bandwidth == sentBytes - prevSentBytes
       IN  /\ prevSentBytes' = sentBytes
           /\ IF bandwidth <= maxBandwidth
              THEN /\ retry' = retry + 1
                   /\ maxBandwidth' = maxBandwidth
                   /\ monPc' = IF retry + 1 > 2 THEN "exited" ELSE "add"
              ELSE /\ retry' = 0
                   /\ maxBandwidth' = bandwidth
                   /\ monPc' = "add"
    /\ monI' = 0
    /\ UNCHANGED mirrorVars
    /\ UNCHANGED callVars
    /\ UNCHANGED <<numCPU, defaultWorkerFactor, maxMem, workersNum, liveWorkers,
                   sentBytes, readReturned, queueClosed, stopMonitorClosed, readerCount, writer,
                   writerHolds, mainPc, newI, tpc, tdeclared, tbarrier, tsize>>

\* a monitor that calls addWorker once per tick
MonitorAddWorkerOncePerTick ==
    /\ monPc = "add"
    /\ monI < defaultWorkerFactor
    /\ addWorker
    /\ monI' = monI + 1
    /\ monPc' = "select"
    /\ UNCHANGED mirrorVars
    /\ UNCHANGED callVars
    /\ UNCHANGED <<numCPU, defaultWorkerFactor, maxMem, sentBytes, readReturned, queueClosed,
                   stopMonitorClosed, readerCount, writer, writerHolds, mainPc, newI,
                   prevSentBytes, maxBandwidth, retry,
                   tpc, tdeclared, tbarrier, tsize>>

\* for i := 0; i < defaultWorkerFactor; i++ { p.addWorker() }: one iteration;
\* after the last one the goroutine is back in its select
MonitorAddWorker ==
    /\ monPc = "add"
    /\ monI < defaultWorkerFactor
    /\ addWorker
    /\ monI' = monI + 1
    /\ monPc' = IF monI + 1 < defaultWorkerFactor THEN "add" ELSE "select"
    /\ UNCHANGED mirrorVars
    /\ UNCHANGED callVars
    /\ UNCHANGED <<numCPU, defaultWorkerFactor, maxMem, sentBytes, readReturned, queueClosed,
                   stopMonitorClosed, readerCount, writer, writerHolds, mainPc, newI,
                   prevSentBytes, maxBandwidth, retry,
                   tpc, tdeclared, tbarrier, tsize>>

\* case <-p.stopMonitorCh: return
MonitorQuit ==
    /\ monPc = "select"
    /\ stopMonitorClosed
    /\ monPc' = "exited"
    /\ UNCHANGED mirrorVars
    /\ UNCHANGED callVars
    /\ UNCHANGED <<numCPU, defaultWorkerFactor, maxMem, workersNum, liveWorkers,
                   sentBytes, readReturned, queueClosed, stopMonitorClosed, readerCount, writer,
                   writerHolds, mainPc, newI, monI, prevSentBytes, maxBandwidth, retry,
                   tpc, tdeclared, tbarrier, tsize>>

(***************************************************************************)
(* queueTask / queueTaskWithBarrier / doQueueTask                          *)
(***************************************************************************)
\* the task handed to doQueueTask after the memory check
doQueueTaskBarrier(declared, uploadSize, alloc) ==
    IF ~enoughMemForUpload(uint64(uploadSize), alloc) THEN TRUE ELSE declared

\* entry of queueTask (declared = FALSE) or queueTaskWithBarrier (declared = TRUE),
\* up to the acquisition of the gate; calls are numbered in the order they begin
Submit(t) ==
    /\ mainPc = "run"
    /\ tpc[t] = "idle"
    /\ IF t = 1 THEN TRUE ELSE tpc[t - 1] # "idle"
    /\ \E call \in Calls, alloc \in Allocs :
        /\ tdeclared' = [tdeclared EXCEPT ![t] = call[1]]
        /\ tsize' = [tsize EXCEPT ![t] = call[2]]
        /\ tbarrier' = [tbarrier EXCEPT ![t] = doQueueTaskBarrier(call[1], call[2], alloc)]
    /\ tpc' = [tpc EXCEPT ![t] = "acquire"]
    /\ UNCHANGED mirrorVars
    /\ UNCHANGED callVars
    /\ UNCHANGED <<numCPU, defaultWorkerFactor, maxMem, workersNum, liveWorkers,
                   sentBytes, readReturned, queueClosed, stopMonitorClosed, readerCount, writer,
                   writerHolds, mainPc, newI, monPc, monI, prevSentBytes,
                   maxBandwidth, retry>>

\* p.barrierSync.Lock(), first half: take the writer slot; from here on new
\* RLock() calls block
LockPending(t) ==
    /\ tpc[t] = "acquire"
    /\ tbarrier[t]
    /\ writer = 0
    /\ writer' = t
    /\ tpc' = [tpc EXCEPT ![t] = "lockwait"]
    /\ UNCHANGED mirrorVars
    /\ UNCHANGED callVars
    /\ UNCHANGED <<numCPU, defaultWorkerFactor, maxMem, workersNum, liveWorkers,
                   sentBytes, readReturned, queueClosed, stopMonitorClosed, readerCount,
                   writerHolds, mainPc, newI, monPc, monI, prevSentBytes,
                   maxBandwidth, retry, tdeclared, tbarrier, tsize>>

\* a Lock() that does not wait for the readers to leave
LockReadyIgnoringReaders(t) == writer = t

\* when a pending Lock() may return
LockReady(t) == writer = t /\ readerCount = 0

\* p.barrierSync.Lock(), second half: wait for the outstanding readers to leave
LockAcquire(t) ==
    /\ tpc[t] = "lockwait"
    /\ LockReady(t)
    /\ writerHolds' = TRUE
    /\ tpc' = [tpc EXCEPT ![t] = "send"]
    /\ UNCHANGED mirrorVars
    /\ UNCHANGED callVars
    /\ UNCHANGED <<numCPU, defaultWorkerFactor, maxMem, workersNum, liveWorkers,
                   sentBytes, readReturned, queueClosed, stopMonitorClosed, readerCount, writer,
                   mainPc, newI, monPc, monI, prevSentBytes,
                   maxBandwidth, retry, tdeclared, tbarrier, tsize>>

\* an RLock() that does not look at the writer
RLockReadyIgnoringWriter == TRUE

\* an RLock() that waits for the other readers too, as a plain mutex would
RLockReadyNoOtherReader == writer = 0 /\ readerCount = 0

\* when RLock() may return: no writer holds the lock or waits for it
RLockReady == writer = 0

\* p.barrierSync.RLock()
RLockAcquire(t) ==
    /\ tpc[t] = "acquire"
    /\ ~tbarrier[t]
    /\ RLockReady
    /\ readerCount' = readerCount + 1
    /\ tpc' = [tpc EXCEPT ![t] = "send"]
    /\ UNCHANGED mirrorVars
    /\ UNCHANGED callVars
    /\ UNCHANGED <<numCPU, defaultWorkerFactor, maxMem, workersNum, liveWorkers,
                   sentBytes, readReturned, queueClosed, stopMonitorClosed, writer,
                   writerHolds, mainPc, newI, monPc, monI, prevSentBytes,
                   maxBandwidth, retry, tdeclared, tbarrier, tsize>>

(***************************************************************************)
(* the worker goroutine of addWorker                                       *)
(***************************************************************************)
\* a queue with room: the send returns with no worker at the receive
WorkerReceiveWithoutIdleWorker(t) ==
    /\ tpc[t] = "send"
    /\ tpc' = [tpc EXCEPT ![t] = "running"]
    /\ UNCHANGED mirrorVars
    /\ UNCHANGED callVars
    /\ UNCHANGED <<numCPU, defaultWorkerFactor, maxMem, workersNum, liveWorkers,
                   sentBytes, readReturned, queueClosed, stopMonitorClosed, readerCount, writer,
                   writerHolds, mainPc, newI, monPc, monI, prevSentBytes,
                   maxBandwidth, retry, tdeclared, tbarrier, tsize>>

\* t, ok := <-p.queueCh with ok: rendezvous with the producer's p.queueCh <- t
WorkerReceive(t) ==
    /\ tpc[t] = "send"
    /\ idleWorkers > 0
    /\ tpc' = [tpc EXCEPT ![t] = "running"]
    /\ UNCHANGED mirrorVars
    /\ UNCHANGED callVars
    /\ UNCHANGED <<numCPU, defaultWorkerFactor, maxMem, workersNum, liveWorkers,
                   sentBytes, readReturned, queueClosed, stopMonitorClosed, readerCount, writer,
                   writerHolds, mainPc, newI, monPc, monI, prevSentBytes,
                   maxBandwidth, retry, tdeclared, tbarrier, tsize>>

\* return len(b), nil
ReadResult(len) == [n |-> len, err |-> "nil"]

\* a Read that returns the length without adding it to the counter
ReadWithoutAdd(t) ==
    /\ tpc[t] = "running"
    /\ \E len \in ReadLens :
        /\ readReturned + len <= MaxSentBytes
        /\ sentBytes' = sentBytes
        /\ readReturned' = readReturned + ReadResult(len).n
    /\ UNCHANGED mirrorVars
    /\ UNCHANGED callVars
    /\ UNCHANGED <<numCPU, defaultWorkerFactor, maxMem, workersNum, liveWorkers,
                   queueClosed, stopMonitorClosed, readerCount, writer,
                   writerHolds, mainPc, newI, monPc, monI, prevSentBytes,
                   maxBandwidth, retry, tpc, tdeclared, tbarrier, tsize>>

\* p.Read(b) called from inside t.fn(): atomic.AddInt64(&p.sentBytes, len(b)),
\* one indivisible step
Read(t) ==
    /\ tpc[t] = "running"
    /\ \E len \in ReadLens :
        /\ sentBytes + len <= MaxSentBytes
        /\ sentBytes' = sentBytes + len
        /\ readReturned' = readReturned + ReadResult(len).n
    /\ UNCHANGED mirrorVars
    /\ UNCHANGED callVars
    /\ UNCHANGED <<numCPU, defaultWorkerFactor, maxMem, workersNum, liveWorkers,
                   queueClosed, stopMonitorClosed, readerCount, writer,
                   writerHolds, mainPc, newI, monPc, monI, prevSentBytes,
                   maxBandwidth, retry, tpc, tdeclared, tbarrier, tsize>>

\* a worker that releases the hold as soon as t.fn() returns, before the result
\* is sent
FnReturnReleasesHold(t) ==
    /\ tpc[t] = "running"
    /\ IF tbarrier[t]
       THEN /\ writer' = 0
            /\ writerHolds' = FALSE
            /\ UNCHANGED readerCount
       ELSE /\ readerCount' = readerCount - 1
            /\ UNCHANGED <<writer, writerHolds>>
    /\ tpc' = [tpc EXCEPT ![t] = "result"]
    /\ UNCHANGED mirrorVars
    /\ UNCHANGED callVars
    /\ UNCHANGED <<numCPU, defaultWorkerFactor, maxMem, workersNum, liveWorkers,
                   sentBytes, readReturned, queueClosed, stopMonitorClosed,
                   mainPc, newI, monPc, monI, prevSentBytes,
                   maxBandwidth, retry, tdeclared, tbarrier, tsize>>

\* p.resultCh <- t.fn(), first half: t.fn() returns and the worker offers the
\* result on p.resultCh
FnReturn(t) ==
    /\ tpc[t] = "running"
    /\ tpc' = [tpc EXCEPT ![t] = "result"]
    /\ UNCHANGED mirrorVars
    /\ UNCHANGED callVars
    /\ UNCHANGED <<numCPU, defaultWorkerFactor, maxMem, workersNum, liveWorkers,
                   sentBytes, readReturned, queueClosed, stopMonitorClosed, readerCount, writer,
                   writerHolds, mainPc, newI, monPc, monI, prevSentBytes,
                   maxBandwidth, retry, tdeclared, tbarrier, tsize>>

\* p.resultCh <- t.fn(), second half: the consumer of p.resultCh receives the
\* result and the send returns
ResultReceive(t) ==
    /\ tpc[t] = "result"
    /\ tpc' = [tpc EXCEPT ![t] = "release"]
    /\ UNCHANGED mirrorVars
    /\ UNCHANGED callVars
    /\ UNCHANGED <<numCPU, defaultWorkerFactor, maxMem, workersNum, liveWorkers,
                   sentBytes, readReturned, queueClosed, stopMonitorClosed, readerCount, writer,
                   writerHolds, mainPc, newI, monPc, monI, prevSentBytes,
                   maxBandwidth, retry, tdeclared, tbarrier, tsize>>

\* a worker that releases by the class the task was declared with, not the class
\* it was admitted with
WorkerReleaseByDeclaredClass(t) ==
    /\ tpc[t] = "release"
    /\ IF tdeclared[t]
       THEN /\ writer' = 0
            /\ writerHolds' = FALSE
            /\ UNCHANGED readerCount
       ELSE /\ readerCount' = readerCount - 1
            /\ UNCHANGED <<writer, writerHolds>>
    /\ tpc' = [tpc EXCEPT ![t] = "done"]
    /\ tdeclared' = [tdeclared EXCEPT ![t] = FALSE]
    /\ tsize' = [tsize EXCEPT ![t] = 0]
    /\ UNCHANGED mirrorVars
    /\ UNCHANGED callVars
    /\ UNCHANGED <<numCPU, defaultWorkerFactor, maxMem, workersNum, liveWorkers,
                   sentBytes, readReturned, queueClosed, stopMonitorClosed,
                   mainPc, newI, monPc, monI, prevSentBytes,
                   maxBandwidth, retry, tbarrier>>

\* a worker that goes back to the queue without giving up the hold of its task
WorkerReleaseKeepsHold(t) ==
    /\ tpc[t] = "release"
    /\ tpc' = [tpc EXCEPT ![t] = "done"]
    /\ tdeclared' = [tdeclared EXCEPT ![t] = FALSE]
    /\ tsize' = [tsize EXCEPT ![t] = 0]
    /\ UNCHANGED mirrorVars
    /\ UNCHANGED callVars
    /\ UNCHANGED <<numCPU, defaultWorkerFactor, maxMem, workersNum, liveWorkers,
                   sentBytes, readReturned, queueClosed, stopMonitorClosed,
                   readerCount, writer, writerHolds,
                   mainPc, newI, monPc, monI, prevSentBytes,
                   maxBandwidth, retry, tbarrier>>

\* if t.barrier { p.barrierSync.Unlock() } else { p.barrierSync.RUnlock() }; the
\* worker is done with the task value: of its fields only the class it was
\* released in is kept
WorkerRelease(t) ==
    /\ tpc[t] = "release"
    /\ IF tbarrier[t]
       THEN /\ writer' = 0
            /\ writerHolds' = FALSE
            /\ UNCHANGED readerCount
       ELSE /\ readerCount' = readerCount - 1
            /\ UNCHANGED <<writer, writerHolds>>
    /\ tpc' = [tpc EXCEPT ![t] = "done"]
    /\ tdeclared' = [tdeclared EXCEPT ![t] = FALSE]
    /\ tsize' = [tsize EXCEPT ![t] = 0]
    /\ UNCHANGED mirrorVars
    /\ UNCHANGED callVars
    /\ UNCHANGED <<numCPU, defaultWorkerFactor, maxMem, workersNum, liveWorkers,
                   sentBytes, readReturned, queueClosed, stopMonitorClosed,
                   mainPc, newI, monPc, monI, prevSentBytes,
                   maxBandwidth, retry, tbarrier>>

\* workers that return as soon as the queue is closed, a task in hand or not
WorkerExitWhileRunning ==
    /\ queueClosed
    /\ liveWorkers > 0
    /\ liveWorkers' = 0
    /\ UNCHANGED mirrorVars
    /\ UNCHANGED callVars
    /\ UNCHANGED <<numCPU, defaultWorkerFactor, maxMem, workersNum,
                   sentBytes, readReturned, queueClosed, stopMonitorClosed, readerCount, writer,
                   writerHolds, mainPc, newI, monPc, monI, prevSentBytes,
                   maxBandwidth, retry, tpc, tdeclared, tbarrier, tsize>>

\* t, ok := <-p.queueCh with !ok: p.wg.Done(); return.  Every worker blocked in
\* the receive sees the closed queue; their returns are taken together, the
\* order among them being invisible to the rest of the program
WorkerExit ==
    /\ queueClosed
    /\ idleWorkers > 0
    /\ liveWorkers' = liveWorkers - idleWorkers
    /\ UNCHANGED mirrorVars
    /\ UNCHANGED callVars
    /\ UNCHANGED <<numCPU, defaultWorkerFactor, maxMem, workersNum,
                   sentBytes, readReturned, queueClosed, stopMonitorClosed, readerCount, writer,
                   writerHolds, mainPc, newI, monPc, monI, prevSentBytes,
                   maxBandwidth, retry, tpc, tdeclared, tbarrier, tsize>>

(***************************************************************************)
(* stopAndWait                                                             *)
(***************************************************************************)
\* close(p.queueCh); the caller has no submission in progress
StopClose ==
    /\ mainPc = "run"
    /\ \A t \in Tasks : tpc[t] \notin {"acquire", "lockwait", "send"}
    /\ queueClosed' = TRUE
    /\ mainPc' = "wait"
    /\ UNCHANGED mirrorVars
    /\ UNCHANGED callVars
    /\ UNCHANGED <<numCPU, defaultWorkerFactor, maxMem, workersNum, liveWorkers,
                   sentBytes, readReturned, stopMonitorClosed, readerCount, writer,
                   writerHolds, newI, monPc, monI, prevSentBytes,
                   maxBandwidth, retry, tpc, tdeclared, tbarrier, tsize>>

\* p.wg.Wait() returns
StopWait ==
    /\ mainPc = "wait"
    /\ liveWorkers = 0
    /\ mainPc' = "waited"
    /\ UNCHANGED mirrorVars
    /\ UNCHANGED callVars
    /\ UNCHANGED <<numCPU, defaultWorkerFactor, maxMem, workersNum, liveWorkers,
                   sentBytes, readReturned, queueClosed, stopMonitorClosed, readerCount, writer,
                   writerHolds, newI, monPc, monI, prevSentBytes,
                   maxBandwidth, retry, tpc, tdeclared, tbarrier, tsize>>

\* close(p.stopMonitorCh); stopAndWait returns
StopMonitor ==
    /\ mainPc = "waited"
    /\ stopMonitorClosed' = TRUE
    /\ mainPc' = "stopped"
    /\ UNCHANGED mirrorVars
    /\ UNCHANGED callVars
    /\ UNCHANGED <<numCPU, defaultWorkerFactor, maxMem, workersNum, liveWorkers,
                   sentBytes, readReturned, queueClosed, readerCount, writer,
                   writerHolds, newI, monPc, monI, prevSentBytes,
                   maxBandwidth, retry, tpc, tdeclared, tbarrier, tsize>>

PMNext ==
    \/ NewAddWorker
    \/ NewReturn
    \/ MonitorTick
    \/ MonitorAddWorker
    \/ MonitorQuit
    \/ \E t \in Tasks : Submit(t)
    \/ \E t \in Tasks : LockPending(t)
    \/ \E t \in Tasks : LockAcquire(t)
    \/ \E t \in Tasks : RLockAcquire(t)
    \/ \E t \in Tasks : WorkerReceive(t)
    \/ \E t \in Tasks : Read(t)
    \/ \E t \in Tasks : FnReturn(t)
    \/ \E t \in Tasks : ResultReceive(t)
    \/ \E t \in Tasks : WorkerRelease(t)
    \/ WorkerExit
    \/ StopClose
    \/ StopWait
    \/ StopMonitor

(***************************************************************************)
(* Mirror: strings, exclude patterns, difference messages.                 *)
(* A string is a sequence of one-character strings.                        *)
(***************************************************************************)
\* sourceURL and targetURL after mustExpandAlias, both ending with the separator
sourceURL == <<"s", "/">>
targetURL == <<"t", "/">>

KeyNames == <<"a", "b", "c", "d">>
\* the object keys below the two roots
Keys == {<<KeyNames[i]>> : i \in 1..MaxKeys}

\* values of opts.excludeOptions
ExcludeSets == {<<>>, << <<"c">>, <<"a", "*">> >>}

HasPrefix(str, prefix) ==
    /\ Len(str) >= Len(prefix)
    /\ SubSeq(str, 1, Len(prefix)) = prefix

\* strings.TrimPrefix
TrimPrefix(str, prefix) ==
    IF HasPrefix(str, prefix) THEN SubSeq(str, Len(prefix) + 1, Len(str)) ELSE str

\* wildcard.deepMatchRune(str, pattern, simple = false)
RECURSIVE deepMatchRune(_, _)
deepMatchRune(str, pattern) ==
    IF pattern = <<>> THEN str = <<>>
    ELSE IF Head(pattern) = "*"
         THEN \/ deepMatchRune(str, Tail(pattern))
              \/ (str # <<>> /\ deepMatchRune(Tail(str), pattern))
    ELSE IF Head(pattern) = "?"
         THEN str # <<>> /\ deepMatchRune(Tail(str), Tail(pattern))
    ELSE /\ str # <<>>
         /\ Head(str) = Head(pattern)
         /\ deepMatchRune(Tail(str), Tail(pattern))

\* wildcard.Match(pattern, name)
wildcardMatch(pattern, name) ==
    IF pattern = <<>> THEN name = pattern
    ELSE IF pattern = <<"*">> THEN TRUE
    ELSE deepMatchRune(name, pattern)

\* the loop "for _, pattern := range excludeOptions" from its i-th pattern on
RECURSIVE matchExcludeFrom(_, _, _)
matchExcludeFrom(excludeOptions, srcSuffix, i) ==
    IF i > Len(excludeOptions) THEN FALSE
    ELSE IF wildcardMatch(excludeOptions[i], srcSuffix) THEN TRUE
    ELSE matchExcludeFrom(excludeOptions, srcSuffix, i + 1)

\* a loop that returns after its first pattern
matchExcludeOptionsFirstPatternOnly(excludeOptions, srcSuffix) ==
    excludeOptions # <<>> /\ wildcardMatch(excludeOptions[1], srcSuffix)

matchExcludeOptions(excludeOptions, srcSuffix) ==
    matchExcludeFrom(excludeOptions, srcSuffix, 1)

\* urlJoinPath(targetURL, sourceSuffix): the root ends with the separator and the
\* suffix does not begin with it
urlJoinPath(url1, url2) == url1 \o url2

\* a *ClientContent; NilContent is the nil pointer
Content(url, size) == [URL |-> url, Size |-> size]
NilContent == [URL |-> <<>>, Size |-> 0]

\* the differType values; differInAASourceMTime is named differInMMSourceMTime in
\* cmd/mirror-url.go
DiffKinds == {"differInUnknown", "differInNone", "differInSize", "differInMetadata",
              "differInType", "differInFirst", "differInSecond", "differInAASourceMTime"}

diffMessage(first, second, diff, err, fc, sc) ==
    [FirstURL |-> first, SecondURL |-> second, Diff |-> diff, Error |-> err,
     firstContent |-> fc, secondContent |-> sc]

\* a message about an object found on both sides
bothSides(k, d) ==
    diffMessage(sourceURL \o k, targetURL \o k, d, FALSE,
                Content(sourceURL \o k, 5), Content(targetURL \o k, 10))

\* a message about an object found on the source side only
firstOnly(k) ==
    diffMessage(sourceURL \o k, <<>>, "differInFirst", FALSE,
                Content(sourceURL \o k, 5), NilContent)

\* a message about an object found on the target side only
secondOnly(k) ==
    diffMessage(<<>>, targetURL \o k, "differInSecond", FALSE,
                NilContent, Content(targetURL \o k, 10))

\* the open input: every message objectDifference can send about the object
\* "a", two messages about a second object "b", and the messages carrying a
\* listing error (with no URL, or with the URL of the entry)
DiffMessages ==
    {bothSides(<<"a">>, d) : d \in DiffKinds \ {"differInFirst", "differInSecond"}}
    \cup {firstOnly(<<"a">>), secondOnly(<<"a">>)}
    \cup {bothSides(<<"b">>, "differInSize"), firstOnly(<<"b">>)}
    \cup {diffMessage(<<>>, <<>>, "differInUnknown", TRUE, NilContent, NilContent)}
    \cup {diffMessage(sourceURL \o <<"a">>, <<>>, "differInUnknown", TRUE,
                      NilContent, NilContent)}

\* a URLs value sent on URLsCh
URLs(sc, tc, err, cond) ==
    [SourceContent |-> sc, TargetContent |-> tc, Error |-> err, ErrorCond |-> cond]

IsCopy(u) == u.Error = "nil" /\ u.SourceContent # NilContent /\ u.TargetContent # NilContent
IsRemove(u) == u.Error = "nil" /\ u.SourceContent = NilContent /\ u.TargetContent # NilContent
IsError(u) == u.Error # "nil"

srcSuffixOf(msg) == TrimPrefix(msg.FirstURL, sourceURL)
tgtSuffixOf(msg) == TrimPrefix(msg.SecondURL, targetURL)

\* a copy whose target path is joined with the whole source URL, the prefix
\* not trimmed
copyURLsPrefixNotTrimmed(msg) ==
    URLs(msg.firstContent, Content(urlJoinPath(targetURL, msg.FirstURL), 0),
         "nil", "differInUnknown")

\* a copy whose source entry has lost its size
copyURLsSizeDropped(msg) ==
    LET sourceSuffix == TrimPrefix(msg.FirstURL, sourceURL)
        targetPath == urlJoinPath(targetURL, sourceSuffix)
    IN  URLs(Content(msg.firstContent.URL, 0), Content(targetPath, 0), "nil", "differInUnknown")

\* the URLs value of a copy of the message's source object
copyURLs(msg) ==
    LET sourceSuffix == TrimPrefix(msg.FirstURL, sourceURL)
        targetPath == urlJoinPath(targetURL, sourceSuffix)
    IN  URLs(msg.firstContent, Content(targetPath, 0), "nil", "differInUnknown")

(***************************************************************************)
(* deltaSourceTarget, the body of its loop over the difference messages:   *)
(* what it sends on URLsCh for one message (out, at most one value) and    *)
(* whether it leaves the loop afterwards (stop).                           *)
(***************************************************************************)
Continue(out) == [out |-> out, stop |-> FALSE]

\* a listing error that ends the loop: return in the place of continue
onErrorReturns(msg) ==
    [out |-> <<URLs(NilContent, NilContent, "diffMsg.Error", "differInUnknown")>>,
     stop |-> TRUE]

\* if diffMsg.Error != nil { URLsCh <- URLs{Error: diffMsg.Error, ...}; continue }
onError(msg) ==
    Continue(<<URLs(NilContent, NilContent, "diffMsg.Error", "differInUnknown")>>)

\* an identical object that is copied all the same
onDifferInNoneCopies(msg) == Continue(<<copyURLs(msg)>>)

\* case differInNone: no difference, continue
onDifferInNone(msg) == Continue(<<>>)

\* a type mismatch resolved by a copy
onDifferInTypeCopies(msg) == Continue(<<copyURLs(msg)>>)

\* case differInType
onDifferInType(msg) ==
    Continue(<<URLs(NilContent, NilContent, "errInvalidTarget", "differInUnknown")>>)

\* an overwrite check that is never made
overwriteAllowedAlways(o) == TRUE

\* the negation of "!opts.isOverwrite && !opts.isFake && !opts.activeActive"
overwriteAllowed(o) == ~(~o.isOverwrite /\ ~o.isFake /\ ~o.activeActive)

\* a refusal that sends nothing
onDifferInSizeSilentRefusal(msg, o) ==
    IF ~overwriteAllowed(o)
    THEN Continue(<<>>)
    ELSE Continue(<<copyURLs(msg)>>)

\* case differInSize, differInMetadata, differInAASourceMTime
onDifferInSize(msg, o) ==
    IF ~overwriteAllowed(o)
    THEN Continue(<<URLs(NilContent, NilContent, "errOverWriteNotAllowed", msg.Diff)>>)
    ELSE Continue(<<copyURLs(msg)>>)

\* an object only in the source that is skipped
onDifferInFirstSkipped(msg) == Continue(<<>>)

\* case differInFirst: only in first, always copy
onDifferInFirst(msg) == Continue(<<copyURLs(msg)>>)

\* a remove check that is never made
removeAllowedAlways(o) == TRUE

\* the negation of "!opts.isRemove && !opts.isFake"
removeAllowed(o) == ~(~o.isRemove /\ ~o.isFake)

\* a removal that is refused with an error result
onDifferInSecondRefusedWithError(msg, o) ==
    IF ~removeAllowed(o)
    THEN Continue(<<URLs(NilContent, NilContent, "errOverWriteNotAllowed", msg.Diff)>>)
    ELSE Continue(<<URLs(NilContent, msg.secondContent, "nil", "differInUnknown")>>)

\* case differInSecond
onDifferInSecond(msg, o) ==
    IF ~removeAllowed(o)
    THEN Continue(<<>>)
    ELSE Continue(<<URLs(NilContent, msg.secondContent, "nil", "differInUnknown")>>)

\* default
onUnrecognized(msg) ==
    Continue(<<URLs(NilContent, NilContent, "errUnrecognizedDiffType", msg.Diff)>>)

\* src/unnamed/part_002
deltaSourceTarget(msg, o) ==
    IF msg.Error THEN onError(msg)
    ELSE IF matchExcludeOptions(o.excludeOptions, srcSuffixOf(msg)) THEN Continue(<<>>)
    ELSE IF matchExcludeOptions(o.excludeOptions, tgtSuffixOf(msg)) THEN Continue(<<>>)
    ELSE CASE msg.Diff = "differInNone" -> onDifferInNone(msg)
           [] msg.Diff = "differInType" -> onDifferInType(msg)
           [] msg.Diff \in {"differInSize", "differInMetadata", "differInAASourceMTime"} ->
                onDifferInSize(msg, o)
           [] msg.Diff = "differInFirst" -> onDifferInFirst(msg)
           [] msg.Diff = "differInSecond" -> onDifferInSecond(msg, o)
           [] OTHER -> onUnrecognized(msg)

\* src/cmd/mirror-url.go: the same loop with no active-active option and no ErrorCond
deltaSourceTargetMirrorURL(msg, o) ==
    IF msg.Error
    THEN Continue(<<URLs(NilContent, NilContent, "diffMsg.Error", "differInUnknown")>>)
    ELSE IF matchExcludeOptions(o.excludeOptions, srcSuffixOf(msg)) THEN Continue(<<>>)
    ELSE IF matchExcludeOptions(o.excludeOptions, tgtSuffixOf(msg)) THEN Continue(<<>>)
    ELSE CASE msg.Diff = "differInNone" -> Continue(<<>>)
           [] msg.Diff = "differInType" ->
                Continue(<<URLs(NilContent, NilContent, "errInvalidTarget", "differInUnknown")>>)
           [] msg.Diff \in {"differInSize", "differInMetadata", "differInAASourceMTime"} ->
                IF ~o.isOverwrite /\ ~o.isFake
                THEN Continue(<<URLs(NilContent, NilContent, "errOverWriteNotAllowed",
                                     "differInUnknown")>>)
                ELSE Continue(<<copyURLs(msg)>>)
           [] msg.Diff = "differInFirst" -> Continue(<<copyURLs(msg)>>)
           [] msg.Diff = "differInSecond" ->
                IF ~o.isRemove /\ ~o.isFake
                THEN Continue(<<>>)
                ELSE Continue(<<URLs(NilContent, msg.secondContent, "nil", "differInUnknown")>>)
           [] OTHER ->
                Continue(<<URLs(NilContent, NilContent, "errUnrecognizedDiffType",
                                "differInUnknown")>>)

Impls == {"part_002", "mirror-url.go"}

deltaBody(msg) ==
    IF impl = "part_002" THEN deltaSourceTarget(msg, opts)
    ELSE deltaSourceTargetMirrorURL(msg, opts)

\* the mirror options of a run; cmd/mirror-url.go has no active-active option
MirrorOptions(i) ==
    [isFake : BOOLEAN, isOverwrite : BOOLEAN, isRemove : BOOLEAN,
     activeActive : IF i = "part_002" THEN BOOLEAN ELSE {FALSE},
     excludeOptions : ExcludeSets]

MirrorInitCommon ==
    /\ impl \in Impls
    /\ opts \in MirrorOptions(impl)
    /\ srcIdx = 1
    /\ tgtIdx = 1
    /\ diffCh = <<>>
    /\ diffClosed = FALSE
    /\ diffSent = <<>>
    /\ dPc = "start"
    /\ pending = <<>>
    /\ stopAfter = FALSE
    /\ events = <<>>
    /\ emitted = <<>>
    /\ ctxDone = FALSE
    /\ receiving = TRUE
    /\ URLsChClosed = FALSE

\* deltaSourceTarget could not obtain one of its clients
Fatal ==
    \/ pending # <<>> /\ pending[1].idx = 0
    \/ \E n \in 1..Len(emitted) : emitted[n].idx = 0

\* objectDifference has been called: deltaSourceTarget has reached its loop
differenceRunning == dPc # "start" /\ ~Fatal

\* a deltaSourceTarget that reports the client it could not obtain and goes on
DeltaStartGoesOnAfterError ==
    /\ dPc = "start"
    /\ \E srcErr \in BOOLEAN, tgtErr \in BOOLEAN :
        IF srcErr \/ tgtErr
        THEN /\ pending' = <<[idx |-> 0,
                              urls |-> URLs(NilContent, NilContent, "newClientFromAlias", "differInUnknown")]>>
             /\ stopAfter' = FALSE
             /\ dPc' = "send"
        ELSE /\ dPc' = "range"
             /\ UNCHANGED <<pending, stopAfter>>
    /\ UNCHANGED <<ctxDone, receiving, impl, opts, srcList, tgtList, srcIdx, tgtIdx, diffCh, diffClosed,
                   diffSent, events, emitted, URLsChClosed>>
    /\ UNCHANGED pmVars
    /\ UNCHANGED callVars

\* deltaSourceTarget up to its loop: newClientFromAlias for the source, then for
\* the target; a failure is sent on URLsCh and the function returns
DeltaStart ==
    /\ dPc = "start"
    /\ \E srcErr \in BOOLEAN, tgtErr \in BOOLEAN :
        IF srcErr \/ tgtErr
        THEN /\ pending' = <<[idx |-> 0,
                              urls |-> URLs(NilContent, NilContent, "newClientFromAlias", "differInUnknown")]>>
             /\ stopAfter' = TRUE
             /\ dPc' = "send"
        ELSE /\ dPc' = "range"
             /\ UNCHANGED <<pending, stopAfter>>
    /\ UNCHANGED <<ctxDone, receiving, impl, opts, srcList, tgtList, srcIdx, tgtIdx, diffCh, diffClosed,
                   diffSent, events, emitted, URLsChClosed>>
    /\ UNCHANGED pmVars
    /\ UNCHANGED callVars

\* one iteration of "for diffMsg := range objectDifference(...)" up to its send
DeltaRange ==
    /\ dPc = "range"
    /\ diffCh # <<>>
    /\ LET msg == Head(diffCh)
           r == deltaBody(msg)
       IN  /\ events' = Append(events, msg)
           /\ diffCh' = Tail(diffCh)
           /\ IF r.out # <<>>
              THEN /\ pending' = <<[idx |-> Len(events) + 1, urls |-> r.out[1]]>>
                   /\ stopAfter' = r.stop
                   /\ dPc' = "send"
                   /\ UNCHANGED URLsChClosed
              ELSE /\ pending' = <<>>
                   /\ stopAfter' = FALSE
                   /\ dPc' = IF r.stop THEN "done" ELSE "range"
                   /\ URLsChClosed' = r.stop
    /\ UNCHANGED <<ctxDone, receiving, impl, opts, srcList, tgtList, srcIdx, tgtIdx, diffClosed,
                   diffSent, emitted>>
    /\ UNCHANGED pmVars
    /\ UNCHANGED callVars

\* the range loop ends on the closed channel; the deferred close(URLsCh) runs
DeltaEnd ==
    /\ dPc = "range"
    /\ diffCh = <<>>
    /\ diffClosed
    /\ dPc' = "done"
    /\ URLsChClosed' = TRUE
    /\ UNCHANGED <<ctxDone, receiving, impl, opts, srcList, tgtList, srcIdx, tgtIdx, diffCh, diffClosed,
                   diffSent, pending, stopAfter, events, emitted>>
    /\ UNCHANGED pmVars
    /\ UNCHANGED callVars

\* a consumer that gets the values last sent first
URLsReceiveLastFirst ==
    /\ dPc = "send"
    /\ emitted' = <<pending[1]>> \o emitted
    /\ pending' = <<>>
    /\ stopAfter' = FALSE
    /\ dPc' = IF stopAfter THEN "done" ELSE "range"
    /\ URLsChClosed' = stopAfter
    /\ UNCHANGED <<ctxDone, receiving, impl, opts, srcList, tgtList, srcIdx, tgtIdx, diffCh, diffClosed,
                   diffSent, events>>
    /\ UNCHANGED pmVars
    /\ UNCHANGED callVars

\* the consumer of URLsCh receives the pending value; deltaSourceTarget goes on
\* with its loop, or returns (deferred close) where the code returns
URLsReceive ==
    /\ dPc = "send"
    /\ receiving
    /\ emitted' = Append(emitted, pending[1])
    /\ pending' = <<>>
    /\ stopAfter' = FALSE
    /\ dPc' = IF stopAfter THEN "done" ELSE "range"
    /\ URLsChClosed' = stopAfter
    /\ UNCHANGED <<ctxDone, receiving, impl, opts, srcList, tgtList, srcIdx, tgtIdx, diffCh, diffClosed,
                   diffSent, events>>
    /\ UNCHANGED pmVars
    /\ UNCHANGED callVars

(***************************************************************************)
(* The difference messages as an open input: any message, any number up to *)
(* MaxEvents, then the close.                                              *)
(***************************************************************************)
DiffSend ==
    /\ differenceRunning
    /\ ~diffClosed
    /\ Len(diffCh) < DiffChCap
    /\ Len(diffSent) < MaxEvents
    /\ \E msg \in DiffMessages :
        /\ diffCh' = Append(diffCh, msg)
        /\ diffSent' = Append(diffSent, msg)
    /\ UNCHANGED <<ctxDone, receiving, impl, opts, srcList, tgtList, srcIdx, tgtIdx, diffClosed,
                   dPc, pending, stopAfter, events, emitted, URLsChClosed>>
    /\ UNCHANGED pmVars
    /\ UNCHANGED callVars

DiffClose ==
    /\ differenceRunning
    /\ ~diffClosed
    /\ diffClosed' = TRUE
    /\ UNCHANGED <<ctxDone, receiving, impl, opts, srcList, tgtList, srcIdx, tgtIdx, diffCh,
                   diffSent, dPc, pending, stopAfter, events, emitted, URLsChClosed>>
    /\ UNCHANGED pmVars
    /\ UNCHANGED callVars

\* the state of the ParallelManager while the mirror part is looked at alone
PMOff == PMInit /\ numCPU = 1 /\ maxMem = 0

(***************************************************************************)
(* The difference engine (objectDifference): a merge of two listings in    *)
(* ascending key order, one message per key.                               *)
(***************************************************************************)
\* what a listing can hold at one key: nothing, a file of 5 or 10 bytes, a
\* directory, or an entry whose read fails
SrcEntryChoices == {"absent", "file5", "err"}
TgtEntryChoices == {"absent", "file5", "file10", "dir5", "err"}

ListingEntry(i, c) ==
    [key |-> <<KeyNames[i]>>, rank |-> i,
     type |-> IF c = "dir5" THEN "dir" ELSE "file",
     size |-> IF c = "file10" THEN 10 ELSE IF c = "file1" THEN 1 ELSE 5,
     err |-> c = "err"]

RECURSIVE listingFrom(_, _)
listingFrom(f, i) ==
    IF i > MaxKeys THEN <<>>
    ELSE (IF f[i] = "absent" THEN <<>> ELSE <<ListingEntry(i, f[i])>>) \o listingFrom(f, i + 1)

\* the listings over the keys: unique keys in ascending order
Listings(choices) == {listingFrom(f, 1) : f \in [1..MaxKeys -> choices]}

\* the keys of a listing
ListKeys(l) == {l[n].key : n \in 1..Len(l)}

\* the comparison of two entries with the same key
classify(e1, e2) ==
    IF e1.type # e2.type THEN "differInType"
    ELSE IF e1.size # e2.size THEN "differInSize"
    ELSE "differInNone"

srcAtEnd == srcIdx > Len(srcList)
tgtAtEnd == tgtIdx > Len(tgtList)

\* a source cursor that is not taken on equal keys
takesSrcOnSmallerKeyOnly ==
    ~srcAtEnd /\ (tgtAtEnd \/ srcList[srcIdx].rank < tgtList[tgtIdx].rank)

\* which cursors the next message is about: the side with the smaller key, both
\* sides on equal keys, the other side once one is exhausted
takesSrc == ~srcAtEnd /\ (tgtAtEnd \/ srcList[srcIdx].rank <= tgtList[tgtIdx].rank)
takesTgt == ~tgtAtEnd /\ (srcAtEnd \/ tgtList[tgtIdx].rank <= srcList[srcIdx].rank)

\* the next message of the merge
differenceMessage ==
    LET e1 == srcList[srcIdx]
        e2 == tgtList[tgtIdx]
        first == IF takesSrc THEN sourceURL \o e1.key ELSE <<>>
        second == IF takesTgt THEN targetURL \o e2.key ELSE <<>>
    IN  IF (takesSrc /\ e1.err) \/ (takesTgt /\ e2.err)
        THEN diffMessage(first, second, "differInUnknown", TRUE, NilContent, NilContent)
        ELSE IF takesSrc /\ takesTgt
        THEN diffMessage(first, second, classify(e1, e2), FALSE,
                         Content(first, e1.size), Content(second, e2.size))
        ELSE IF takesSrc
        THEN diffMessage(first, second, "differInFirst", FALSE,
                         Content(first, e1.size), NilContent)
        ELSE diffMessage(first, second, "differInSecond", FALSE,
                         NilContent, Content(second, e2.size))

\* a merge that gives up at the first read error: the error is sent and both
\* cursors are put at the end
DifferenceStepAbortsOnError ==
    /\ differenceRunning
    /\ ~diffClosed
    /\ ~(srcAtEnd /\ tgtAtEnd)
    /\ Len(diffCh) < DiffChCap
    /\ diffCh' = Append(diffCh, differenceMessage)
    /\ diffSent' = Append(diffSent, differenceMessage)
    /\ srcIdx' = IF differenceMessage.Error THEN Len(srcList) + 1
                 ELSE IF takesSrc THEN srcIdx + 1 ELSE srcIdx
    /\ tgtIdx' = IF differenceMessage.Error THEN Len(tgtList) + 1
                 ELSE IF takesTgt THEN tgtIdx + 1 ELSE tgtIdx
    /\ UNCHANGED <<ctxDone, receiving, impl, opts, srcList, tgtList, diffClosed,
                   dPc, pending, stopAfter, events, emitted, URLsChClosed>>
    /\ UNCHANGED pmVars
    /\ UNCHANGED callVars

\* one step of the merge: send the message, advance the cursors it is about
DifferenceStep ==
    /\ differenceRunning
    /\ ~diffClosed
    /\ ~ctxDone
    /\ ~(srcAtEnd /\ tgtAtEnd)
    /\ Len(diffCh) < DiffChCap
    /\ diffCh' = Append(diffCh, differenceMessage)
    /\ diffSent' = Append(diffSent, differenceMessage)
    /\ srcIdx' = IF takesSrc THEN srcIdx + 1 ELSE srcIdx
    /\ tgtIdx' = IF takesTgt THEN tgtIdx + 1 ELSE tgtIdx
    /\ UNCHANGED <<ctxDone, receiving, impl, opts, srcList, tgtList, diffClosed,
                   dPc, pending, stopAfter, events, emitted, URLsChClosed>>
    /\ UNCHANGED pmVars
    /\ UNCHANGED callVars

\* both listings are exhausted, or the context is cancelled: close(diffCh)
DifferenceClose ==
    /\ differenceRunning
    /\ ~diffClosed
    /\ (srcAtEnd /\ tgtAtEnd) \/ ctxDone
    /\ diffClosed' = TRUE
    /\ UNCHANGED <<ctxDone, receiving, impl, opts, srcList, tgtList, srcIdx, tgtIdx, diffCh,
                   diffSent, dPc, pending, stopAfter, events, emitted, URLsChClosed>>
    /\ UNCHANGED pmVars
    /\ UNCHANGED callVars

\* the listings vary, with the overwrite and remove options; the other options
\* vary under SpecDelta
PipelineInit ==
    /\ PMOff
    /\ MirrorInitCommon
    /\ ~opts.isFake /\ ~opts.activeActive
    /\ opts.excludeOptions = <<>>
    /\ srcList \in Listings(SrcEntryChoices)
    /\ tgtList \in Listings(TgtEntryChoices)

PipelineNext ==
    \/ DeltaStart
    \/ DeltaRange
    \/ DeltaEnd
    \/ URLsReceive
    \/ DifferenceStep
    \/ DifferenceClose

\* the difference engine feeding deltaSourceTarget
SpecPipeline == PipelineInit /\ [][PipelineNext]_vars

(***************************************************************************)
(* Cancellation.  The context is handed to deltaSourceTarget of part_002,  *)
(* which hands it to objectDifference and does not look at it again; the   *)
(* consumer of URLsCh may stop receiving once the context is cancelled.    *)
(***************************************************************************)
\* the caller cancels the context
CtxCancel ==
    /\ ~ctxDone
    /\ ~URLsChClosed
    /\ ctxDone' = TRUE
    /\ UNCHANGED <<receiving, impl, opts, srcList, tgtList, srcIdx, tgtIdx, diffCh,
                   diffClosed, diffSent, dPc, pending, stopAfter, events, emitted,
                   URLsChClosed>>
    /\ UNCHANGED pmVars
    /\ UNCHANGED callVars

\* the consumer of URLsCh returns on the cancelled context
ConsumerStops ==
    /\ ctxDone
    /\ receiving
    /\ receiving' = FALSE
    /\ UNCHANGED <<ctxDone, impl, opts, srcList, tgtList, srcIdx, tgtIdx, diffCh,
                   diffClosed, diffSent, dPc, pending, stopAfter, events, emitted,
                   URLsChClosed>>
    /\ UNCHANGED pmVars
    /\ UNCHANGED callVars

CancelInit ==
    /\ PipelineInit
    /\ impl = "part_002"
    /\ opts.isOverwrite /\ opts.isRemove

CancelNext ==
    \/ DeltaStart
    \/ DeltaRange
    \/ DeltaEnd
    \/ URLsReceive
    \/ DifferenceStep
    \/ DifferenceClose
    \/ CtxCancel
    \/ ConsumerStops

\* the pipeline of part_002 under a context that may be cancelled
SpecCancel == CancelInit /\ [][CancelNext]_vars

\* Scenario A of the spec: source {a: 5 B, b: 10 B}, target {b: 10 B, c: 1 B},
\* overwrite and remove set, no exclude pattern
ScenarioAInit ==
    /\ PMOff
    /\ MirrorInitCommon
    /\ opts.isOverwrite /\ opts.isRemove /\ opts.excludeOptions = <<>>
    /\ srcList = <<ListingEntry(1, "file5"), ListingEntry(2, "file10")>>
    /\ tgtList = <<ListingEntry(2, "file10"), ListingEntry(3, "file1")>>

SpecScenarioA == ScenarioAInit /\ [][PipelineNext]_vars

\* the keys of the target once the first n values sent on URLsCh are applied: a
\* copy puts its target key, a remove takes its target key away
RECURSIVE targetKeysAfter(_)
targetKeysAfter(n) ==
    IF n = 0 THEN ListKeys(tgtList)
    ELSE LET u == emitted[n].urls
             k == TrimPrefix(u.TargetContent.URL, targetURL)
         IN  IF IsCopy(u) THEN targetKeysAfter(n - 1) \cup {k}
             ELSE IF IsRemove(u) THEN targetKeysAfter(n - 1) \ {k}
             ELSE targetKeysAfter(n - 1)

\* the state of the mirror part while the ParallelManager is looked at alone
MirrorOff ==
    /\ MirrorInitCommon
    /\ impl = "part_002"
    /\ opts = [isFake |-> FALSE, isOverwrite |-> FALSE, isRemove |-> FALSE,
               activeActive |-> FALSE, excludeOptions |-> <<>>]
    /\ srcList = <<>>
    /\ tgtList = <<>>

DeltaInit ==
    /\ PMOff
    /\ MirrorInitCommon
    /\ srcList = <<>>
    /\ tgtList = <<>>

DeltaNext ==
    \/ DeltaStart
    \/ DeltaRange
    \/ DeltaEnd
    \/ URLsReceive
    \/ DiffSend
    \/ DiffClose

\* deltaSourceTarget fed with arbitrary difference messages
SpecDelta == DeltaInit /\ [][DeltaNext]_vars

Init == PMInit /\ MirrorOff

Next == PMNext

Spec == Init /\ [][Next]_vars

\* estimateNeededMemoryForUpload alone: its calls, with their results
EstimateInit == PMOff /\ MirrorOff

EstimateCall ==
    /\ Len(callArgs) < MaxCalls
    /\ \E size \in EstimateSizes :
        /\ callArgs' = Append(callArgs, size)
        /\ callResults' = Append(callResults,
                               U64Value(estimateNeededMemoryForUpload(uint64(size))))
    /\ UNCHANGED pmVars
    /\ UNCHANGED mirrorVars

EstimateNext == EstimateCall

SpecEstimate == EstimateInit /\ [][EstimateNext]_vars

(***************************************************************************)
(* Progress.  The manager of a one-processor machine, whose task functions *)
(* make no Read call.  Every goroutine that can take a step takes it in    *)
(* the end: the constructor, the monitor's loop, the producers past their  *)
(* entry, the workers and stopAndWait once called; the task functions      *)
(* return; the consumer of resultCh keeps receiving.  Nothing obliges a    *)
(* producer to submit, the caller to stop, or the ticker to fire.          *)
(***************************************************************************)
LiveInit == Init /\ numCPU = 1

LiveNext ==
    \/ NewAddWorker
    \/ NewReturn
    \/ MonitorTick
    \/ MonitorAddWorker
    \/ MonitorQuit
    \/ \E t \in Tasks : Submit(t)
    \/ \E t \in Tasks : LockPending(t)
    \/ \E t \in Tasks : LockAcquire(t)
    \/ \E t \in Tasks : RLockAcquire(t)
    \/ \E t \in Tasks : WorkerReceive(t)
    \/ \E t \in Tasks : FnReturn(t)
    \/ \E t \in Tasks : ResultReceive(t)
    \/ \E t \in Tasks : WorkerRelease(t)
    \/ WorkerExit
    \/ StopClose
    \/ StopWait
    \/ StopMonitor

LiveFairness ==
    /\ WF_vars(NewAddWorker)
    /\ WF_vars(NewReturn)
    /\ WF_vars(MonitorAddWorker)
    /\ WF_vars(MonitorQuit)
    /\ \A t \in Tasks :
        /\ WF_vars(LockPending(t))
        /\ WF_vars(LockAcquire(t))
        /\ WF_vars(RLockAcquire(t))
        /\ WF_vars(WorkerReceive(t))
        /\ WF_vars(FnReturn(t))
        /\ WF_vars(ResultReceive(t))
        /\ WF_vars(WorkerRelease(t))
    /\ WF_vars(WorkerExit)
    /\ WF_vars(StopWait)
    /\ WF_vars(StopMonitor)

SpecLive == LiveInit /\ [][LiveNext]_vars /\ LiveFairness

(***************************************************************************)
(* The admission decision of doQueueTask.  The manager of a machine of 130 *)
(* processors runs as under Spec, or the decision is looked at alone on a  *)
(* manager that has not been run: its calls with the task, the memory in   *)
(* use read by the call, and what the call gives.                          *)
(***************************************************************************)
AdmissionAvailables == {500000000, 600000000}
AdmissionSizes == {-2147483647, -1, 0, 299999999, 300000000, 4 * partSize}
AdmissionAllocs == {0, 77346816, 100000000}

AdmissionInit == PMInitWith(AdmissionAvailables) /\ numCPU = 130 /\ MirrorOff

\* no call of the decision alone has been recorded
NoCall == callArgs = <<>>

\* newParallelManager has not made a step
NotRun == mainPc = "new" /\ newI = 0

\* doQueueTask up to the gate: the conversion of t.uploadSize, the panic test
\* and the memory check that may set t.barrier
AdmissionCall ==
    /\ Len(callArgs) < MaxCalls
    /\ \E declared \in BOOLEAN, uploadSize \in AdmissionSizes, alloc \in AdmissionAllocs :
        /\ callArgs' = Append(callArgs, [barrier |-> declared, uploadSize |-> uploadSize,
                                         alloc |-> alloc])
        /\ callResults' = Append(callResults,
                                 [panic |-> unexpectedSize(uint64(uploadSize)),
                                  barrier |-> doQueueTaskBarrier(declared, uploadSize, alloc)])
    /\ UNCHANGED pmVars
    /\ UNCHANGED mirrorVars

AdmissionNext ==
    \/ NoCall /\ NewAddWorker
    \/ NoCall /\ NewReturn
    \/ NoCall /\ MonitorTick
    \/ NoCall /\ MonitorAddWorker
    \/ NoCall /\ MonitorQuit
    \/ \E t \in Tasks : NoCall /\ Submit(t)
    \/ \E t \in Tasks : NoCall /\ LockPending(t)
    \/ \E t \in Tasks : NoCall /\ LockAcquire(t)
    \/ \E t \in Tasks : NoCall /\ RLockAcquire(t)
    \/ \E t \in Tasks : NoCall /\ WorkerReceive(t)
    \/ \E t \in Tasks : NoCall /\ Read(t)
    \/ \E t \in Tasks : NoCall /\ FnReturn(t)
    \/ \E t \in Tasks : NoCall /\ ResultReceive(t)
    \/ \E t \in Tasks : NoCall /\ WorkerRelease(t)
    \/ NoCall /\ WorkerExit
    \/ NoCall /\ StopClose
    \/ NoCall /\ StopWait
    \/ NoCall /\ StopMonitor
    \/ NotRun /\ AdmissionCall

SpecAdmission == AdmissionInit /\ [][AdmissionNext]_vars

\* The scheduler on a one-processor machine, or the orchestrator of Scenario A,
\* each running alone: the consumer of URLsCh, which hands the tasks to the
\* scheduler, is not part of the model.
BackPressureInit == (Init /\ numCPU = 1) \/ ScenarioAInit

\* the mirror is off: it has no listing to read
NoListing == srcList = <<>> /\ tgtList = <<>>

\* the steps of PMNext while the mirror is off, those of PipelineNext otherwise
BackPressureNext ==
    \/ NoListing /\ NewAddWorker
    \/ NoListing /\ NewReturn
    \/ NoListing /\ MonitorTick
    \/ NoListing /\ MonitorAddWorker
    \/ NoListing /\ MonitorQuit
    \/ \E t \in Tasks : NoListing /\ Submit(t)
    \/ \E t \in Tasks : NoListing /\ LockPending(t)
    \/ \E t \in Tasks : NoListing /\ LockAcquire(t)
    \/ \E t \in Tasks : NoListing /\ RLockAcquire(t)
    \/ \E t \in Tasks : NoListing /\ WorkerReceive(t)
    \/ \E t \in Tasks : NoListing /\ Read(t)
    \/ \E t \in Tasks : NoListing /\ FnReturn(t)
    \/ \E t \in Tasks : NoListing /\ ResultReceive(t)
    \/ \E t \in Tasks : NoListing /\ WorkerRelease(t)
    \/ NoListing /\ WorkerExit
    \/ NoListing /\ StopClose
    \/ NoListing /\ StopWait
    \/ NoListing /\ StopMonitor
    \/ ~NoListing /\ DeltaStart
    \/ ~NoListing /\ DeltaRange
    \/ ~NoListing /\ DeltaEnd
    \/ ~NoListing /\ URLsReceive
    \/ ~NoListing /\ DifferenceStep
    \/ ~NoListing /\ DifferenceClose

SpecBackPressure == BackPressureInit /\ [][BackPressureNext]_vars

(***************************************************************************)
(* Properties of the ParallelManager (checked under Spec).                 *)
(***************************************************************************)

\* C1: no two tasks of which at least one is a barrier task (declared or
\* promoted) are in execution at the same time, a task being in execution from
\* the moment a worker receives it until the worker releases its hold.
C1_BarrierNeverOverlaps ==
    \A t1 \in Tasks, t2 \in Tasks :
        (t1 # t2 /\ Executing(t1) /\ Executing(t2)) => (~tbarrier[t1] /\ ~tbarrier[t2])

\* a promoted barrier task is in execution while another submission waits at the gate
C1_Witness ==
    \E t1 \in Tasks, t2 \in Tasks :
        /\ Executing(t1) /\ tbarrier[t1] /\ ~tdeclared[t1]
        /\ tpc[t2] \in {"acquire", "lockwait"}

\* C2: the worker count never decreases from one state to the next and never
\* exceeds 128.
C2_WorkersMonotoneAndBounded ==
    /\ [](workersNum <= maxParallelWorkers)
    /\ [][workersNum' >= workersNum]_vars

\* the monitor has raised the count to the ceiling, a further addWorker call of
\* the same tick was refused, and stopAndWait has returned
C2_Witness ==
    /\ numCPU < maxParallelWorkers
    /\ workersNum = maxParallelWorkers
    /\ monI = defaultWorkerFactor
    /\ mainPc = "stopped"

\* the tasks whose memory check has been made
Checked(t) == tpc[t] # "idle"

\* C3 as stated: a task whose estimated memory requirement exceeds the budget,
\* whatever the budget (0 included), is admitted as a barrier task.
C3_PromotedForEveryBudget ==
    \A t \in Tasks :
        (Checked(t) /\ U64Value(estimateNeededMemoryForUpload(uint64(tsize[t]))) > maxMem) => tbarrier[t]

\* C3 amended: a task whose estimated memory requirement exceeds a budget other
\* than 0 is admitted as a barrier task, whatever its declared class.
C3_PromotedWhenBudgetKnown ==
    \A t \in Tasks :
        (Checked(t) /\ maxMem # 0 /\ U64Value(estimateNeededMemoryForUpload(uint64(tsize[t]))) > maxMem)
            => tbarrier[t]

\* a task declared without barrier, larger than the budget, runs as a barrier task
C3_Witness ==
    \E t \in Tasks :
        /\ Executing(t) /\ ~tdeclared[t] /\ tbarrier[t]
        /\ maxMem # 0 /\ U64Value(estimateNeededMemoryForUpload(uint64(tsize[t]))) > maxMem

(***************************************************************************)
(* Properties of deltaSourceTarget (checked under SpecDelta, the last one  *)
(* under SpecPipeline).                                                    *)
(***************************************************************************)
\* the suffix matches one of the patterns
MatchesAny(patterns, suffix) ==
    \E n \in 1..Len(patterns) : wildcardMatch(patterns[n], suffix)

\* either suffix of the message matches an exclude pattern
Excluded(msg, o) ==
    \/ MatchesAny(o.excludeOptions, srcSuffixOf(msg))
    \/ MatchesAny(o.excludeOptions, tgtSuffixOf(msg))

\* the received messages whose handling is complete
Handled == {i \in 1..Len(events) : i < Len(events) \/ dPc # "send"}

\* what was sent on URLsCh because of the i-th received message
OutputsOf(i) ==
    LET from(e) == e.idx = i
        sel == SelectSeq(emitted, from)
    IN  [n \in 1..Len(sel) |-> sel[n].urls]

\* exactly one value was sent for the i-th message, an error result of this kind
OneError(i, kind) ==
    /\ Len(OutputsOf(i)) = 1
    /\ OutputsOf(i)[1].Error = kind
    /\ OutputsOf(i)[1].SourceContent = NilContent
    /\ OutputsOf(i)[1].TargetContent = NilContent

NoCopy(i) == \A n \in 1..Len(OutputsOf(i)) : ~IsCopy(OutputsOf(i)[n])
NoRemove(i) == \A n \in 1..Len(OutputsOf(i)) : ~IsRemove(OutputsOf(i)[n])

SizeOrMetadataMismatch(msg) ==
    ~msg.Error /\ msg.Diff \in {"differInSize", "differInMetadata"}

\* C4 as stated: with overwrite = false, whatever the other options, every
\* SizeMismatch or MetadataMismatch message produces an 'overwrite not allowed'
\* error result and never a Copy task (read over the messages that pass the
\* exclusion, which comes first in the handling of a message).
C4_ErrorForEveryOtherOption ==
    \A i \in Handled :
        (/\ SizeOrMetadataMismatch(events[i]) /\ ~Excluded(events[i], opts)
         /\ ~opts.isOverwrite)
            => (OneError(i, "errOverWriteNotAllowed") /\ NoCopy(i))

\* C4 amended: with overwrite = false, dryRun = false and active-active = false,
\* no SizeMismatch or MetadataMismatch message produces a Copy task, and every
\* such message that is not excluded produces exactly one 'overwrite not allowed'
\* error result.
C4_ErrorWithoutDryRunAndActiveActive ==
    \A i \in Handled :
        (/\ SizeOrMetadataMismatch(events[i])
         /\ ~opts.isOverwrite /\ ~opts.isFake /\ ~opts.activeActive)
            => /\ NoCopy(i)
               /\ ~Excluded(events[i], opts) => OneError(i, "errOverWriteNotAllowed")

\* a metadata mismatch was refused while remove is set
C4_Witness ==
    \E i \in Handled :
        /\ events[i].Diff = "differInMetadata" /\ ~events[i].Error
        /\ ~opts.isOverwrite /\ ~opts.isFake /\ ~opts.activeActive /\ opts.isRemove
        /\ ~Excluded(events[i], opts)
        /\ OneError(i, "errOverWriteNotAllowed")

OnlyInTarget(msg) == ~msg.Error /\ msg.Diff = "differInSecond"

\* C5 as stated: with remove = false, whatever the other options, no
\* OnlyInTarget message produces a Remove task.
C5_NoRemoveForEveryOtherOption ==
    \A i \in Handled : (OnlyInTarget(events[i]) /\ ~opts.isRemove) => NoRemove(i)

\* C5 amended: with remove = false and dryRun = false, no OnlyInTarget message
\* produces a Remove task.
C5_NoRemoveWithoutDryRun ==
    \A i \in Handled :
        (OnlyInTarget(events[i]) /\ ~opts.isRemove /\ ~opts.isFake) => NoRemove(i)

\* an object only in the target, not excluded, was left alone while overwrite is set
C5_Witness ==
    \E i \in Handled :
        /\ OnlyInTarget(events[i])
        /\ ~opts.isRemove /\ ~opts.isFake /\ opts.isOverwrite
        /\ ~Excluded(events[i], opts)
        /\ OutputsOf(i) = <<>>

\* C6: every OnlyInSource message that carries no error and whose suffixes match
\* no exclude pattern produces exactly one Copy task, whatever the options.
C6_OnlyInSourceAlwaysCopied ==
    \A i \in Handled :
        (/\ ~events[i].Error /\ events[i].Diff = "differInFirst"
         /\ ~Excluded(events[i], opts))
            => (Len(OutputsOf(i)) = 1 /\ IsCopy(OutputsOf(i)[1]))

\* an object only in the source was copied with overwrite, remove and dryRun all
\* unset and exclude patterns present
C6_Witness ==
    \E i \in Handled :
        /\ ~events[i].Error /\ events[i].Diff = "differInFirst"
        /\ ~opts.isOverwrite /\ ~opts.isRemove /\ ~opts.isFake
        /\ opts.excludeOptions # <<>>
        /\ Len(OutputsOf(i)) = 1 /\ IsCopy(OutputsOf(i)[1])

\* C7: every TypeMismatch message that is not excluded produces exactly one error
\* result (invalid target) and no Copy or Remove task, whatever the options.
C7_TypeMismatchAlwaysError ==
    \A i \in Handled :
        (/\ ~events[i].Error /\ events[i].Diff = "differInType"
         /\ ~Excluded(events[i], opts))
            => (OneError(i, "errInvalidTarget") /\ NoCopy(i) /\ NoRemove(i))

\* a type mismatch was refused with overwrite, remove, dryRun and active-active set
C7_Witness ==
    \E i \in Handled :
        /\ ~events[i].Error /\ events[i].Diff = "differInType"
        /\ opts.isOverwrite /\ opts.isRemove /\ opts.isFake /\ opts.activeActive
        /\ OneError(i, "errInvalidTarget")

\* C8 as stated: for every message of every kind, those carrying a listing error
\* included, if either suffix matches an exclude pattern nothing is sent.
C8_ExcludedDropsEveryMessage ==
    \A i \in Handled : Excluded(events[i], opts) => OutputsOf(i) = <<>>

\* C8 amended: for every message that carries no listing error, if either suffix
\* matches an exclude pattern nothing is sent; a message carrying a listing error
\* is forwarded as one error result whether or not a suffix matches.
C8_ExcludedDropsMessageWithoutError ==
    \A i \in Handled :
        /\ (~events[i].Error /\ Excluded(events[i], opts)) => OutputsOf(i) = <<>>
        /\ events[i].Error => OneError(i, "diffMsg.Error")

\* an object only in the target was dropped because of its target-side suffix
\* alone, while remove is set
C8_Witness ==
    \E i \in Handled :
        /\ OnlyInTarget(events[i]) /\ opts.isRemove
        /\ ~MatchesAny(opts.excludeOptions, srcSuffixOf(events[i]))
        /\ MatchesAny(opts.excludeOptions, tgtSuffixOf(events[i]))
        /\ OutputsOf(i) = <<>>

\* C9: a message carrying a listing error is forwarded as exactly one error
\* result and does not end the loop: when deltaSourceTarget has returned (its
\* clients obtained), it has received every message that was sent, and every
\* message without error has produced what the loop body produces for it alone.
C9_ListingErrorDoesNotHalt ==
    /\ \A i \in Handled : events[i].Error => OneError(i, "diffMsg.Error")
    /\ (dPc = "done" /\ ~Fatal) => events = diffSent
    /\ \A i \in Handled : ~events[i].Error => OutputsOf(i) = deltaBody(events[i]).out

\* a listing error came first, an object only in the source followed, and both
\* produced their output
C9_Witness ==
    /\ dPc = "done"
    /\ Len(events) >= 2
    /\ events[1].Error
    /\ events[2].Diff = "differInFirst" /\ ~events[2].Error
    /\ OneError(1, "diffMsg.Error")
    /\ Len(OutputsOf(2)) = 1 /\ IsCopy(OutputsOf(2)[1])

NoReadError(l) == \A n \in 1..Len(l) : ~l[n].err

MsgKey(msg) == IF msg.FirstURL # <<>> THEN srcSuffixOf(msg) ELSE tgtSuffixOf(msg)

\* the place of a key in the ascending order of the keys
KeyRank(k) == CHOOSE i \in 1..Len(KeyNames) : <<KeyNames[i]>> = k

ComparisonKinds == {"differInNone", "differInType", "differInSize", "differInMetadata",
                    "differInAASourceMTime"}

\* C11: for listings with unique keys in ascending order, the merge sends exactly
\* one message for every key of either listing (a comparison for a key of both,
\* OnlyInSource or OnlyInTarget for a key of one), none for any other key, and
\* the messages are sent in ascending key order.
C11_OneEventPerKeyAscending ==
    LET both == ListKeys(srcList) \cap ListKeys(tgtList)
        all == ListKeys(srcList) \cup ListKeys(tgtList)
        sent == {MsgKey(diffSent[n]) : n \in 1..Len(diffSent)}
    IN  /\ sent \subseteq all
        /\ \A n \in 1..(Len(diffSent) - 1) :
               KeyRank(MsgKey(diffSent[n])) < KeyRank(MsgKey(diffSent[n + 1]))
        /\ diffClosed => sent = all
        /\ \A n \in 1..Len(diffSent) :
               LET msg == diffSent[n]
               IN  ~msg.Error =>
                     IF MsgKey(msg) \in both
                     THEN msg.Diff \in ComparisonKinds
                          /\ msg.FirstURL # <<>> /\ msg.SecondURL # <<>>
                     ELSE IF MsgKey(msg) \in ListKeys(srcList)
                     THEN msg.Diff = "differInFirst" /\ msg.SecondURL = <<>>
                     ELSE msg.Diff = "differInSecond" /\ msg.FirstURL = <<>>

\* the merge of two listings has ended: a key of both was compared, then the
\* remainder of the target was flushed
C11_Witness ==
    /\ diffClosed
    /\ Len(srcList) = 1 /\ Len(tgtList) = 2
    /\ Len(diffSent) = 2
    /\ diffSent[1].Diff = "differInSize"
    /\ diffSent[2].Diff = "differInSecond"

\* the entries of a listing at the i-th key (none or one)
EntriesAt(l, i) == {l[n] : n \in {m \in 1..Len(l) : l[m].rank = i}}

\* the message owed to the i-th key: a listing error if the read of either entry
\* failed, otherwise the comparison or the one-sided message
ExpectedMessage(i) ==
    LET k == <<KeyNames[i]>>
        inSrc == EntriesAt(srcList, i) # {}
        inTgt == EntriesAt(tgtList, i) # {}
        e1 == CHOOSE e \in EntriesAt(srcList, i) : TRUE
        e2 == CHOOSE e \in EntriesAt(tgtList, i) : TRUE
        first == IF inSrc THEN sourceURL \o k ELSE <<>>
        second == IF inTgt THEN targetURL \o k ELSE <<>>
    IN  IF (inSrc /\ e1.err) \/ (inTgt /\ e2.err)
        THEN diffMessage(first, second, "differInUnknown", TRUE, NilContent, NilContent)
        ELSE IF inSrc /\ inTgt
        THEN diffMessage(first, second,
                         IF e1.type # e2.type THEN "differInType"
                         ELSE IF e1.size # e2.size THEN "differInSize"
                         ELSE "differInNone",
                         FALSE, Content(first, e1.size), Content(second, e2.size))
        ELSE IF inSrc
        THEN diffMessage(first, second, "differInFirst", FALSE,
                         Content(first, e1.size), NilContent)
        ELSE diffMessage(first, second, "differInSecond", FALSE,
                         NilContent, Content(second, e2.size))

\* the messages owed to the keys from the i-th on, in ascending order
RECURSIVE ExpectedFrom(_)
ExpectedFrom(i) ==
    IF i > Len(KeyNames) THEN <<>>
    ELSE (IF EntriesAt(srcList, i) \cup EntriesAt(tgtList, i) = {} THEN <<>>
          ELSE <<ExpectedMessage(i)>>) \o ExpectedFrom(i + 1)

IsPrefix(a, b) == Len(a) <= Len(b) /\ \A n \in 1..Len(a) : a[n] = b[n]

\* C13: when the read of a listing fails at a key m, the merge sends a listing
\* error for m, tagged with the key, and still sends the right message for every
\* key before and after m, in ascending order; it ends only when both listings
\* are exhausted.
C13_ReadErrorDoesNotAbortMerge ==
    (~NoReadError(srcList) \/ ~NoReadError(tgtList))
        => /\ IsPrefix(diffSent, ExpectedFrom(1))
           /\ diffClosed => diffSent = ExpectedFrom(1)

\* the read of the first key failed on the target side, a listing error was sent
\* for it, and the second key, equal on both sides, was then reported identical
C13_Witness ==
    /\ diffClosed
    /\ Len(diffSent) = 2
    /\ diffSent[1].Error /\ diffSent[1].SecondURL = targetURL \o <<"a">>
    /\ ~diffSent[2].Error /\ diffSent[2].Diff = "differInNone"

(***************************************************************************)
(* Scenario A (checked under SpecScenarioA).                               *)
(***************************************************************************)
\* the values sent on URLsCh so far
EmittedURLs == [n \in 1..Len(emitted) |-> emitted[n].urls]

ScenarioATasks ==
    <<URLs(Content(sourceURL \o <<"a">>, 5), Content(targetURL \o <<"a">>, 0),
           "nil", "differInUnknown"),
      URLs(NilContent, Content(targetURL \o <<"c">>, 1), "nil", "differInUnknown")>>

\* C12: in Scenario A (clients obtained) the pipeline sends exactly Copy(a) then
\* Remove(c), nothing for b, and the target with those tasks applied holds
\* exactly the keys a and b.
C12_ScenarioATasks ==
    ~Fatal =>
        /\ IsPrefix(EmittedURLs, ScenarioATasks)
        /\ \A i \in Handled : MsgKey(events[i]) = <<"b">> => OutputsOf(i) = <<>>
        /\ dPc = "done" =>
              /\ EmittedURLs = ScenarioATasks
              /\ IsCopy(EmittedURLs[1]) /\ IsRemove(EmittedURLs[2])
              /\ targetKeysAfter(Len(emitted)) = {<<"a">>, <<"b">>}

\* Scenario A has run to its end: three messages handled, two tasks sent
C12_Witness ==
    /\ dPc = "done" /\ ~Fatal
    /\ Len(events) = 3
    /\ Len(emitted) = 2
    /\ targetKeysAfter(2) = {<<"a">>, <<"b">>}

(***************************************************************************)
(* Properties of the gate and of the workers (checked under Spec).         *)
(***************************************************************************)
\* the tasks whose hold on the gate is outstanding: acquired by doQueueTask, not
\* yet released by the worker
Holding(t) == tpc[t] \in {"send", "running", "result", "release"}

\* C14: the hold is acquired by the producer before the task is put on the queue
\* and released once, by the worker, in the class it was acquired in: at every
\* moment the shared count of the gate equals the number of non-barrier tasks
\* between their acquisition and their worker's release, and the gate is held
\* exclusively exactly while a barrier (or promoted) task is between the two.
C14_HoldReleasedOnceInItsClass ==
    /\ readerCount = Cardinality({t \in Tasks : Holding(t) /\ ~tbarrier[t]})
    /\ writerHolds <=> (\E t \in Tasks : Holding(t) /\ tbarrier[t])
    /\ \A t \in Tasks : (Holding(t) /\ tbarrier[t]) => writer = t

\* a barrier task has been released by its worker, the gate is free of any
\* exclusive hold, and a non-barrier task holds it shared
C14_Witness ==
    \E t1 \in Tasks, t2 \in Tasks :
        /\ tpc[t1] = "done" /\ tbarrier[t1]
        /\ Holding(t2) /\ ~tbarrier[t2]
        /\ readerCount = 1 /\ ~writerHolds /\ writer = 0

\* C15: when stopAndWait has returned no worker goroutine is live, none having
\* been started after the wait.
C15_NoWorkerAfterStop == mainPc = "stopped" => liveWorkers = 0

\* C17: an exclusive hold is the only hold outstanding: a barrier submission
\* does not go on to the queue before every shared hold is released, and no
\* shared hold is acquired while the exclusive hold is outstanding.
C17_ExclusiveHoldIsAlone ==
    /\ \A t1 \in Tasks, t2 \in Tasks :
           (t1 # t2 /\ Holding(t1) /\ Holding(t2)) => (~tbarrier[t1] /\ ~tbarrier[t2])
    /\ writerHolds => readerCount = 0

\* a barrier submission waits in Lock() while a shared hold is outstanding
C17_Witness ==
    \E t1 \in Tasks, t2 \in Tasks :
        /\ tpc[t1] = "lockwait" /\ tbarrier[t1]
        /\ Holding(t2) /\ ~tbarrier[t2]
        /\ readerCount = 1

\* an exclusive hold is outstanding or an exclusive acquisition is pending, by
\* another submission than t
ExclusiveOutstandingOrPending(t) ==
    \E t2 \in Tasks \ {t} :
        tbarrier[t2] /\ tpc[t2] \in {"lockwait", "send", "running", "result", "release"}

\* C18: a non-barrier submission that has passed the memory check waits at the
\* gate only while an exclusive hold is outstanding or pending: otherwise its
\* RLock() can return, whatever the number of shared holds outstanding.
C18_SharedBlocksOnlyOnExclusive ==
    \A t \in Tasks :
        (tpc[t] = "acquire" /\ ~tbarrier[t] /\ ~ExclusiveOutstandingOrPending(t))
            => ENABLED RLockAcquire(t)

\* two non-barrier tasks are executed at the same time, both holds outstanding
C18_Witness ==
    \E t1 \in Tasks, t2 \in Tasks :
        /\ t1 # t2
        /\ tpc[t1] = "running" /\ ~tbarrier[t1]
        /\ tpc[t2] = "running" /\ ~tbarrier[t2]
        /\ readerCount = 2

\* the order of the steps of a task
StepOrder ==
    {<<"idle", "acquire">>, <<"acquire", "lockwait">>, <<"acquire", "send">>,
     <<"lockwait", "send">>, <<"send", "running">>, <<"running", "result">>,
     <<"result", "release">>, <<"release", "done">>}

\* C19: a worker takes the task from the queue, runs its function, delivers the
\* result, releases the hold and is idle again, in this order; the hold is
\* released only in the step after the result was received, so a barrier
\* submission waiting in Lock() is admitted only when no result of another
\* admitted task is still to be received.
C19_ResultBeforeRelease ==
    [][/\ \A t \in Tasks : tpc'[t] # tpc[t] => <<tpc[t], tpc'[t]>> \in StepOrder
       /\ (readerCount' < readerCount \/ (writerHolds /\ ~writerHolds'))
             => \E t \in Tasks : tpc[t] = "release" /\ tpc'[t] = "done"
       /\ \A t \in Tasks :
             (tpc[t] = "lockwait" /\ tpc'[t] = "send")
                 => \A t2 \in Tasks \ {t} : tpc[t2] \in {"idle", "acquire", "lockwait", "done"}
      ]_vars

\* a barrier submission waits in Lock() while the result of a task is offered
\* and not yet received
C19_Witness ==
    \E t1 \in Tasks, t2 \in Tasks :
        /\ tpc[t1] = "lockwait"
        /\ tpc[t2] = "result"

\* C20: every task whose submission has returned before stopAndWait is in the
\* hands of a live worker until it is done; workers return only with the queue
\* closed and no task in hand; when p.wg.Wait() has returned every submitted
\* task is done, and a task done is not run again.
C20_NoTaskLostAtShutdown ==
    /\ [](idleWorkers >= 0)
    /\ [](mainPc \in {"waited", "stopped"} => \A t \in Tasks : tpc[t] \in {"idle", "done"})
    /\ [][liveWorkers' < liveWorkers
            => (queueClosed /\ liveWorkers - liveWorkers' <= idleWorkers)]_vars
    /\ [][\A t \in Tasks : tpc[t] = "done" => tpc'[t] = "done"]_vars

\* the queue was closed while a task was running: the idle workers have
\* returned, the worker of the task has not
C20_Witness ==
    \E t \in Tasks :
        /\ queueClosed
        /\ tpc[t] = "running"
        /\ liveWorkers = 1
        /\ numCPU > 1

(***************************************************************************)
(* Properties of the monitor (checked under Spec).                         *)
(***************************************************************************)
\* the step is a tick of the monitor: the ticker case of its select was taken
TickStep == monPc = "select" /\ (monPc' = "add" \/ retry' = retry + 1)

\* the bandwidth a tick taken now computes
TickBandwidth == sentBytes - prevSentBytes

\* C21 as stated: on every tick whose bandwidth is greater than or equal to the
\* best bandwidth so far, the monitor goes on to add a batch of workers and
\* resets the stall counter to 0.
C21_ResetWhenDeltaMeetsOrExceeds ==
    [][(TickStep /\ TickBandwidth >= maxBandwidth)
          => (retry' = 0 /\ monPc' = "add" /\ monI' = 0)]_vars

\* C21 amended: on every tick whose bandwidth is strictly greater than the best
\* bandwidth so far, the monitor records it as the best, resets the stall counter
\* to 0 and goes on to add a batch of workers; a tick whose bandwidth equals the
\* best so far (0 included, when no byte has moved) does not reset the stall
\* counter but increments it.
C21_ResetOnlyWhenDeltaExceeds ==
    /\ [][(TickStep /\ TickBandwidth > maxBandwidth)
            => (retry' = 0 /\ maxBandwidth' = TickBandwidth
                /\ monPc' = "add" /\ monI' = 0)]_vars
    /\ [][(TickStep /\ TickBandwidth = maxBandwidth)
            => (retry' = retry + 1 /\ maxBandwidth' = maxBandwidth)]_vars

\* after a stalled tick, a tick with a bandwidth above the best has reset the
\* stall counter, and the monitor is about to add its batch
C21_Witness ==
    /\ monPc = "add" /\ monI = 0
    /\ retry = 0
    /\ maxBandwidth > 0 /\ prevSentBytes = sentBytes
    /\ workersNum > numCPU

\* C22: a tick whose bandwidth is lower than the best so far increments the
\* stall counter; a tick ends the monitor exactly when it takes the stall counter
\* above 2; once the monitor has ended it stays ended and the worker count no
\* longer changes.
C22_MonitorEndsOnThirdStall ==
    /\ [][(TickStep /\ TickBandwidth < maxBandwidth) => retry' = retry + 1]_vars
    /\ [][TickStep => (monPc' = "exited" <=> retry' > 2)]_vars
    /\ [](retry <= 3)
    /\ [][monPc = "exited" => (monPc' = "exited" /\ workersNum' = workersNum)]_vars

\* the monitor has ended by itself on its third stalled tick in a row, the
\* ticks having found a bandwidth below the best, while the run goes on
C22_Witness ==
    /\ monPc = "exited" /\ ~stopMonitorClosed
    /\ retry = 3
    /\ maxBandwidth > 0
    /\ mainPc = "run"

(***************************************************************************)
(* Further properties of deltaSourceTarget (checked under SpecDelta).      *)
(***************************************************************************)
ContentMismatch(msg) ==
    ~msg.Error /\ msg.Diff \in {"differInSize", "differInMetadata", "differInAASourceMTime"}

\* exactly one value was sent for the i-th message, a copy of its source object
OneCopy(i) ==
    /\ Len(OutputsOf(i)) = 1
    /\ IsCopy(OutputsOf(i)[1])
    /\ OutputsOf(i)[1].SourceContent = events[i].firstContent

\* C23 as stated: every SizeMismatch, MetadataMismatch or TimestampConflict
\* message that is not excluded produces exactly one output: a Copy task if
\* overwrite or dryRun is set, and otherwise, whatever the other options, an
\* 'overwrite not allowed' error result.
C23_CopyIffOverwriteOrDryRun ==
    \A i \in Handled :
        (ContentMismatch(events[i]) /\ ~Excluded(events[i], opts))
            => IF opts.isOverwrite \/ opts.isFake
               THEN OneCopy(i)
               ELSE OneError(i, "errOverWriteNotAllowed")

\* C23 amended: every such message that is not excluded produces exactly one
\* output: a Copy task if overwrite, dryRun or active-active is set, and
\* otherwise an 'overwrite not allowed' error result and no task.
C23_CopyIffOverwriteDryRunOrActiveActive ==
    \A i \in Handled :
        (ContentMismatch(events[i]) /\ ~Excluded(events[i], opts))
            => IF opts.isOverwrite \/ opts.isFake \/ opts.activeActive
               THEN OneCopy(i)
               ELSE OneError(i, "errOverWriteNotAllowed")

\* a timestamp conflict was resolved by a copy with active-active alone set
C23_Witness ==
    \E i \in Handled :
        /\ events[i].Diff = "differInAASourceMTime" /\ ~events[i].Error
        /\ ~Excluded(events[i], opts)
        /\ ~opts.isOverwrite /\ ~opts.isFake /\ opts.activeActive
        /\ OneCopy(i)

\* C24: every OnlyInTarget message that is not excluded produces one Remove task
\* (the target content of the message, no source content) if remove or dryRun is
\* set, and otherwise nothing, neither a task nor an error result.
C24_RemoveIffRemoveOrDryRun ==
    \A i \in Handled :
        (OnlyInTarget(events[i]) /\ ~Excluded(events[i], opts))
            => IF opts.isRemove \/ opts.isFake
               THEN /\ Len(OutputsOf(i)) = 1
                    /\ IsRemove(OutputsOf(i)[1])
                    /\ OutputsOf(i)[1].TargetContent = events[i].secondContent
               ELSE OutputsOf(i) = <<>>

\* an object only in the target produced a Remove task in a dry run without the
\* remove option
C24_Witness ==
    \E i \in Handled :
        /\ OnlyInTarget(events[i]) /\ ~Excluded(events[i], opts)
        /\ ~opts.isRemove /\ opts.isFake
        /\ Len(OutputsOf(i)) = 1 /\ IsRemove(OutputsOf(i)[1])

(***************************************************************************)
(* Back-pressure (checked under SpecBackPressure).                         *)
(***************************************************************************)
\* the producers inside queueTask / queueTaskWithBarrier
Blocked == {t \in Tasks : tpc[t] \in {"acquire", "lockwait", "send"}}

\* the tasks admitted by the gate that no worker has taken yet
AdmittedNotTaken == {t \in Tasks : tpc[t] = "send"}

\* the tasks admitted by the gate and not yet completed
AdmittedNotCompleted == {t \in Tasks : Holding(t)}

\* C25: a submission returns only in a step in which a worker blocked in its
\* receive takes the task; the admitted tasks not yet taken are at most the
\* producers blocked in a submission, and the admitted tasks not yet completed
\* are at most the live workers plus those producers; deltaSourceTarget takes the
\* next difference message only when everything it had to send for the earlier
\* ones has been received.
C25_BackPressure ==
    /\ [](Cardinality(AdmittedNotTaken) <= Cardinality(Blocked))
    /\ [](Cardinality(AdmittedNotCompleted) <= liveWorkers + Cardinality(Blocked))
    /\ [][\A t \in Tasks :
            (tpc[t] = "send" /\ tpc'[t] # "send")
                => (idleWorkers > 0 /\ tpc'[t] = "running")]_vars
    /\ [](Len(pending) <= 1)
    /\ [][Len(events') > Len(events)
            => /\ pending = <<>>
               /\ \A i \in 1..Len(events) : OutputsOf(i) = deltaBody(events[i]).out]_vars

\* the only worker is busy with one task and the producer of a second task,
\* admitted by the gate, is blocked in its send
C25_Witness ==
    \E t1 \in Tasks, t2 \in Tasks :
        /\ liveWorkers = 1
        /\ tpc[t1] = "running"
        /\ tpc[t2] = "send"
        /\ idleWorkers = 0

Min(a, b) == IF a <= b THEN a ELSE b

\* the monitor has not taken a tick yet
NoTickYet == retry = 0 /\ maxBandwidth = 0 /\ prevSentBytes = 0 /\ monPc \in {"off", "select"}

\* C27: from the return of newParallelManager to the first tick of the monitor
\* the worker count is min(NumCPU, 128); a tick that adds workers makes
\* defaultWorkerFactor calls of addWorker, each taking the count from w to
\* min(w + 1, 128), and nothing else changes the count meanwhile: the tick takes
\* it from w to min(w + defaultWorkerFactor, 128).
C27_WorkerCountAfterStartAndTick ==
    /\ []((mainPc # "new" /\ NoTickYet) => workersNum = Min(numCPU, maxParallelWorkers))
    /\ [][(TickStep /\ monPc' = "add") => (monI' = 0 /\ workersNum' = workersNum)]_vars
    /\ [][monPc = "add"
            => \/ /\ monI' = monI /\ monPc' = "add" /\ workersNum' = workersNum
               \/ /\ monI' = monI + 1
                  /\ workersNum' = Min(workersNum + 1, maxParallelWorkers)
                  /\ monPc' = (IF monI' = defaultWorkerFactor THEN "select" ELSE "add")]_vars

\* on a machine with 127 processors the first tick has made its two addWorker
\* calls and the count has gone from 127 to the ceiling
C27_Witness ==
    /\ numCPU = 127
    /\ monPc = "select" /\ monI = defaultWorkerFactor /\ defaultWorkerFactor = 2
    /\ retry = 1 /\ maxBandwidth = 0
    /\ workersNum = maxParallelWorkers

(***************************************************************************)
(* The memory estimate (checked under SpecEstimate).                       *)
(***************************************************************************)
\* C28: the estimate of a size s is three parts (3 x 128 MiB) when s is at least
\* three parts and s itself otherwise; it is at most three parts, at most s, and
\* non-decreasing in s.
C28_EstimateCappedAtThreeParts ==
    /\ Len(callResults) = Len(callArgs)
    /\ \A n \in 1..Len(callArgs) :
          /\ callResults[n] = (IF callArgs[n] >= 3 * 134217728
                               THEN 3 * 134217728 ELSE callArgs[n])
          /\ callResults[n] <= 3 * 134217728
          /\ callResults[n] <= callArgs[n]
    /\ \A m \in 1..Len(callArgs), n \in 1..Len(callArgs) :
          callArgs[m] <= callArgs[n] => callResults[m] <= callResults[n]

\* the estimate was taken of a size just under three parts and of a size of
\* more than three parts
C28_Witness ==
    /\ Len(callArgs) = 2
    /\ callArgs[1] = 3 * 134217728 - 1 /\ callResults[1] = callArgs[1]
    /\ callArgs[2] > 3 * 134217728 /\ callResults[2] = 3 * 134217728

\* C29: if deltaSourceTarget cannot obtain one of its clients it sends exactly
\* one error result and no task, receives no difference message and closes
\* URLsCh; in every run URLsCh is closed once, when deltaSourceTarget returns,
\* and nothing is sent on it afterwards.
C29_FatalErrorClosesStream ==
    /\ [](Fatal => /\ events = <<>>
                   /\ diffSent = <<>>
                   /\ Len(emitted) + Len(pending) = 1
                   /\ \A n \in 1..Len(emitted) :
                         IsError(emitted[n].urls) /\ emitted[n].urls.Error = "newClientFromAlias"
                   /\ pending = <<>> => (dPc = "done" /\ URLsChClosed))
    /\ [](URLsChClosed <=> dPc = "done")
    /\ [](URLsChClosed => pending = <<>>)
    /\ [][URLsChClosed => (URLsChClosed' /\ emitted' = emitted /\ pending' = pending)]_vars

\* a client could not be obtained: the error result has been received and
\* URLsCh is closed
C29_Witness ==
    /\ Fatal
    /\ dPc = "done" /\ URLsChClosed
    /\ Len(emitted) = 1 /\ emitted[1].idx = 0
    /\ events = <<>>

\* the key of the object a task is about
TaskKey(u) == TrimPrefix(u.TargetContent.URL, targetURL)

\* the tasks sent so far, error results left out
EmittedTasks ==
    LET task(e) == IsCopy(e.urls) \/ IsRemove(e.urls)
    IN  SelectSeq(emitted, task)

\* the messages received so far are about keys in ascending order
EventsAscending ==
    /\ \A n \in 1..Len(events) : MsgKey(events[n]) \in Keys
    /\ \A n \in 1..(Len(events) - 1) :
          KeyRank(MsgKey(events[n])) < KeyRank(MsgKey(events[n + 1]))

\* C30: deltaSourceTarget sends at most one value for a difference message, the
\* values are received in the order of the messages that caused them, each being
\* what the loop body produces for its message, and when the messages come in
\* ascending key order the tasks sent are in ascending key order.
C30_OutputsFollowEvents ==
    ~Fatal =>
        /\ \A i \in 1..Len(events) : Len(OutputsOf(i)) <= 1
        /\ \A n \in 1..Len(emitted) :
              /\ emitted[n].idx \in 1..Len(events)
              /\ emitted[n].urls = deltaBody(events[emitted[n].idx]).out[1]
        /\ \A n \in 1..(Len(emitted) - 1) : emitted[n].idx < emitted[n + 1].idx
        /\ EventsAscending =>
              \A n \in 1..(Len(EmittedTasks) - 1) :
                  KeyRank(TaskKey(EmittedTasks[n].urls))
                      < KeyRank(TaskKey(EmittedTasks[n + 1].urls))

\* two messages in ascending key order have each produced a task, a removal
\* then a copy
C30_Witness ==
    /\ ~Fatal /\ EventsAscending
    /\ Len(events) = 2 /\ Len(emitted) = 2
    /\ IsRemove(emitted[1].urls) /\ TaskKey(emitted[1].urls) = <<"a">>
    /\ IsCopy(emitted[2].urls) /\ TaskKey(emitted[2].urls) = <<"b">>

(***************************************************************************)
(* Cancellation of the pipeline (SpecCancel)                               *)
(***************************************************************************)
\* deltaSourceTarget starts a send on URLsCh
SendBegins == pending = <<>> /\ pending' # <<>>

\* C31: once the context is cancelled, deltaSourceTarget starts no send of a
\* Copy or Remove value on URLsCh, and with the context cancelled URLsCh is
\* closed or a step that leads to its close can still be taken, also when the
\* consumer has stopped receiving
C31_NoTaskAfterCancelAndClose ==
    /\ [][ctxDone /\ SendBegins
            => ~IsCopy(pending'[1].urls) /\ ~IsRemove(pending'[1].urls)]_vars
    /\ [](ctxDone /\ ~receiving => URLsChClosed \/ ENABLED CancelNext)

(***************************************************************************)
(* The batches of the monitor                                              *)
(***************************************************************************)
\* the workers in place after n whole batches and i further addWorker calls
WorkersAfterBatches(n, i) == Min(numCPU + n * defaultWorkerFactor + i, maxParallelWorkers)

\* C33: every tick on which the monitor does not end, a stalled one with the
\* stall counter at 1 or 2 included, is followed by a whole batch of addWorker
\* calls; while the byte counter has never changed the stall counter counts the
\* ticks, one batch is in place per tick up to two (within the ceiling), and
\* the third tick ends the monitor with no further batch
C33_BatchOnEveryLiveTick ==
    /\ [][TickStep /\ monPc' # "exited" => monPc' = "add" /\ monI' = 0]_vars
    /\ [][monPc = "add" /\ monPc' # "add"
            => monPc' = "select" /\ monI' = defaultWorkerFactor]_vars
    /\ [][TickStep /\ monPc' = "exited" => retry' = 3 /\ workersNum' = workersNum]_vars
    /\ [](sentBytes = 0 /\ monPc = "select"
            => retry <= 2 /\ workersNum = WorkersAfterBatches(retry, 0))
    /\ [](sentBytes = 0 /\ monPc = "add"
            => retry \in {1, 2} /\ workersNum = WorkersAfterBatches(retry - 1, monI))
    /\ [](sentBytes = 0 /\ monPc = "exited"
            => workersNum = WorkersAfterBatches(Min(retry, 2), 0))

\* no byte has moved, the third tick has ended the monitor, two batches are in place
C33_Witness ==
    /\ sentBytes = 0
    /\ numCPU = 1
    /\ monPc = "exited" /\ retry = 3
    /\ ~stopMonitorClosed
    /\ workersNum = 1 + 2 * defaultWorkerFactor

(***************************************************************************)
(* What the values sent on URLsCh carry (SpecDelta)                        *)
(***************************************************************************)
\* the message that caused the n-th value received from URLsCh
CauseOf(n) == events[emitted[n].idx]

\* the target root joined with the suffix of the source URL below the source root
TargetPathOf(msg) ==
    targetURL \o SubSeq(msg.FirstURL, Len(sourceURL) + 1, Len(msg.FirstURL))

\* C36: every Copy received from URLsCh carries the source entry, size
\* included, of the message that caused it and the target root joined with
\* the source suffix as its target path; every value caused by an
\* only-in-target message is a Remove that carries the target entry of the
\* message and no source entry; a value with an error carries no entry at all
C36_TasksCarryTheirEntries ==
    \A n \in 1..Len(emitted) :
        LET u == emitted[n].urls
        IN  /\ IsError(u) => u.SourceContent = NilContent /\ u.TargetContent = NilContent
            /\ ~IsError(u) => emitted[n].idx > 0 /\ (IsCopy(u) \/ IsRemove(u))
            /\ IsCopy(u) =>
                /\ CauseOf(n).Diff # "differInSecond"
                /\ u.SourceContent = CauseOf(n).firstContent
                /\ u.SourceContent.Size = CauseOf(n).firstContent.Size
                /\ u.TargetContent.URL = TargetPathOf(CauseOf(n))
            /\ IsRemove(u) =>
                /\ CauseOf(n).Diff = "differInSecond"
                /\ u.TargetContent = CauseOf(n).secondContent
                /\ u.SourceContent = NilContent

\* a Copy of a source entry of 5 bytes and a Remove have been received
C36_Witness ==
    /\ Len(emitted) = 2
    /\ IsCopy(emitted[1].urls)
    /\ emitted[1].urls.SourceContent.Size = 5
    /\ HasPrefix(CauseOf(1).FirstURL, sourceURL)
    /\ IsRemove(emitted[2].urls)
    /\ emitted[2].urls.TargetContent.Size > 0

(***************************************************************************)
(* The admission decision (SpecAdmission)                                  *)
(***************************************************************************)
\* the memory estimate of an upload of s >= 0 bytes
EstimateOf(s) == IF s >= 3 * 134217728 THEN 3 * 134217728 ELSE s

\* the decision of doQueueTask has been made for t and t is not yet released
Decided(t) == tpc[t] \notin {"idle", "done"}

\* C34: a task of size s >= 0 runs as a barrier task exactly when it was
\* declared one or s > 0, the budget is > 0 and estimate(s) plus the memory in
\* use is at least the budget (equality included); with size 0 or budget 0 a
\* task keeps its declared class; t.barrier is set in the step that enters
\* doQueueTask, which leaves the gate alone, and never afterwards; the budget
\* never changes
C34_PromotedIffBudgetReached ==
    /\ [](\A n \in 1..Len(callArgs) :
            LET a == callArgs[n]
            IN  a.uploadSize >= 0 =>
                  (callResults[n].barrier <=>
                      \/ a.barrier
                      \/ /\ a.uploadSize > 0
                         /\ maxMem > 0
                         /\ EstimateOf(a.uploadSize) + a.alloc >= maxMem))
    /\ [](\A t \in Tasks :
            Decided(t) /\ (tsize[t] = 0 \/ maxMem = 0) => tbarrier[t] = tdeclared[t])
    /\ [][\A t \in Tasks :
            tbarrier'[t] # tbarrier[t]
                => /\ tpc[t] = "idle" /\ tpc'[t] = "acquire"
                   /\ readerCount' = readerCount /\ writer' = writer
                   /\ writerHolds' = writerHolds]_vars
    /\ [][maxMem' = maxMem]_vars

\* two calls under a budget of 400000000 with 100000000 bytes in use: the task
\* of 300000000 bytes, which meets the budget exactly, is promoted, the task of
\* one byte less is not
C34_Witness ==
    /\ maxMem = 400000000
    /\ Len(callArgs) = 2
    /\ callArgs[1] = [barrier |-> FALSE, uploadSize |-> 300000000, alloc |-> 100000000]
    /\ callResults[1].barrier
    /\ callArgs[2] = [barrier |-> FALSE, uploadSize |-> 299999999, alloc |-> 100000000]
    /\ ~callResults[2].barrier

Submitting(t) == tpc[t] \in {"acquire", "lockwait", "send"}

\* the worker of t is in its send on resultCh
InResultSend(t) == tpc[t] = "result"

\* C32: every submission returns in the end, every admitted task is completed
\* in the end with its hold given up, and stopAndWait, once called, returns in
\* the end; a worker leaves its send on resultCh only by the consumer's
\* receive, and while it is in the send the hold of its task is kept, the
\* worker is live and stopAndWait has not passed its wait
C32_ProgressUnlessConsumerStops ==
    /\ \A t \in Tasks : Submitting(t) ~> ~Submitting(t)
    /\ \A t \in Tasks : Holding(t) ~> (tpc[t] = "done" /\ writer # t)
    /\ (\E t \in Tasks : tpc[t] # "idle")
            ~> (\A t \in Tasks : tpc[t] \in {"idle", "done"}) /\ readerCount = 0 /\ writer = 0
    /\ mainPc = "wait" ~> mainPc = "stopped"
    /\ [][\A t \in Tasks : InResultSend(t) /\ ~InResultSend(t)' => ResultReceive(t)]_vars
    /\ [](\A t \in Tasks :
            InResultSend(t) =>
                /\ IF tbarrier[t] THEN writer = t /\ writerHolds ELSE readerCount >= 1
                /\ liveWorkers >= 1
                /\ mainPc \notin {"waited", "stopped"})

\* a barrier task and a shared task have both been completed and stopAndWait
\* has returned
C32_Witness ==
    /\ mainPc = "stopped"
    /\ \A t \in Tasks : tpc[t] = "done"
    /\ \E t1 \in Tasks, t2 \in Tasks : tbarrier[t1] /\ ~tbarrier[t2]

=============================================================================
